---- MODULE Spec2Model ----
(***************************************************************************)
(* Run aggregation and trust scoring of the authe.me OpenClaw plugin.      *)
(*                                                                         *)
(* The repository holds three variants of the plugin:                      *)
(*   "v01"  the v0.1 engine  (src/unnamed/part_001, lines 208-673):        *)
(*          hooks llm_input, llm_output, after_tool_call,                  *)
(*          message.processed over the closure-owned Map `runs`;           *)
(*   "v02"  the v0.2 plugin  (src/extensions/autheme/src/plugin.ts):       *)
(*          hooks after_tool_call, agent_end over the module-level Map     *)
(*          `activeRuns`;                                                  *)
(*   "ae"   the agent_end-only plugin (src/unnamed/part_001, lines 1-206), *)
(*          which keeps no state between events.                           *)
(* One variant is loaded per behaviour (variable `variant`).               *)
(*                                                                         *)
(* Units: times are milliseconds (Date.now()); costs are hundredths of a   *)
(* USD, so that the default cost threshold 0.50 is 50.                     *)
(* An absent, null, undefined or empty string is "" and an absent number   *)
(* is 0: both are falsy under the || the handlers use for defaults.        *)
(* Action records leave out the fields no code path reads back             *)
(* (timestamp strings, model name, metadata).                              *)
(***************************************************************************)
EXTENDS Integers, Sequences, FiniteSets, TLC

VARIABLES
    variant,               \* which plugin variant is loaded
    now,                   \* Date.now()
    config,                \* the plugin configuration, fixed at registration
    host,                  \* what the host's context objects carry
    hostRun,               \* the host's current run of each session
    ctx,                   \* the host's context object of each session
    runs,                  \* v0.1: const runs = new Map<string, RunState>()
    lastActiveSessionKey,  \* v0.1: let lastActiveSessionKey
    activeRuns,            \* v0.2: const activeRuns = new Map<...>()
    inflight,              \* fetch() promises dispatched and not yet settled
    out,                   \* what the host and the logger saw of the last handler
    scoring                \* a score computation on its own: its arguments and result

vars == <<variant, now, config, host, hostRun, ctx, runs, lastActiveSessionKey, activeRuns,
          inflight, out, scoring>>

(***************************************************************************)
(* Bounds of the model.                                                    *)
(***************************************************************************)
MaxTicks == 2        \* clock ticks per behaviour
MaxActions == 2      \* log entries held by the registry, over all runs
MaxNewRuns == 1      \* sessions whose host run ends and is followed by a new one
TickMsV01 == 300000  \* one clock tick of the v0.1 engine, in ms
TickMsV02 == 3600001 \* one clock tick of the v0.2 plugin, in ms
MaxTicksV02 == 1     \* clock ticks per behaviour of the v0.2 and agent_end-only plugins
MaxInflight == 1     \* fetches pending at a time
MaxScans == 2        \* message scans applied to one record

Sessions == {"s1", "s2"}
Tools == {"read", "shell"}
ToolInputs == Tools    \* event.toolName of a tool-call event

(***************************************************************************)
(* Program constants.                                                      *)
(***************************************************************************)
STALE_RUN_TTL_MS == 300000
DEFAULT_COST_THRESHOLD == 50
DEFAULT_LATENCY_THRESHOLD == 30000

T0 == TickMsV01          \* the clock when the plugin is registered (never 0)

(***************************************************************************)
(* JavaScript helpers.                                                     *)
(***************************************************************************)
\* undefined (or null) is Undef for strings and NoNum for numbers: the v0.2
\* handlers default with ??, which replaces only those two
Undef == "<undefined>"
NoNum == -1
Nullish(a, b) == IF a = Undef THEN b ELSE a
NullishNum(a, b) == IF a = NoNum THEN b ELSE a
\* n || 0 on a number that may be missing
OrZero(n) == IF n = NoNum THEN 0 ELSE n
\* a || b on strings
OrStr(a, b) == IF a # "" THEN a ELSE b
\* a || b on numbers
OrNum(a, b) == IF a # 0 THEN a ELSE b
\* `run_${Date.now()}`
GenRunId(t) == "run_" \o ToString(t)
\* Array.prototype.includes
Includes(seq, x) == \E i \in 1..Len(seq) : seq[i] = x

(***************************************************************************)
(* A Map keyed by session key.  Both engines store under key k a record    *)
(* whose sessionKey field is k, so the Map is the set of its values.       *)
(***************************************************************************)
MapHas(m, k) == \E r \in m : r.sessionKey = k
MapGet(m, k) == CHOOSE r \in m : r.sessionKey = k
MapSet(m, k, r) == {x \in m : x.sessionKey # k} \cup {r}
\* a delete that would remove nothing
MapDeleteNothing(m, k) == m
MapDelete(m, k) == {x \in m : x.sessionKey # k}

(***************************************************************************)
(* Scoring arithmetic.  Math.round(p / q) for integers p and q > 0 is      *)
(* floor(p/q + 1/2): halves round up.                                      *)
(***************************************************************************)
JsRound(p, q) == (2 * p + q) \div (2 * q)
Max(a, b) == IF a >= b THEN a ELSE b

\* [...new Set(seq)]: the distinct elements in order of first occurrence
Unique(seq) ==
    LET RECURSIVE U(_, _)
        U(i, acc) == IF i > Len(seq) THEN acc
                     ELSE U(i + 1, IF Includes(acc, seq[i]) THEN acc
                                   ELSE Append(acc, seq[i]))
    IN  U(1, <<>>)

(***************************************************************************)
(* Math.round((1 - n / d) * 100) in IEEE-754 binary64, for integers n >= 0 *)
(* and d >= 1.  The quotient, the difference and the product are each      *)
(* rounded to a double.  The result differs from the exact round-half-up   *)
(* only where 100 * (1 - n/d) is exactly a half, which makes n/d an odd    *)
(* number of 200ths; at the rates below the double falls just under the    *)
(* half (17/40 gives 57.49999999999999) and Math.round goes down.          *)
(***************************************************************************)
FallsShort == {85, 87, 89, 91, 93, 109, 111, 135, 137, 155, 157, 159, 161, 179, 181,
               183, 185, 187}

RateScore(n, d) ==
    IF \E p \in FallsShort : 200 * n = p * d
    THEN JsRound(100 * (d - n), d) - 1
    ELSE JsRound(100 * (d - n), d)

\* a filter that would count a sample at the threshold as slow
SlowCountAtThreshold(latencies, threshold) ==
    Cardinality({i \in 1..Len(latencies) : latencies[i] >= threshold})

\* latencies.filter((l) => l > threshold).length
SlowCount(latencies, threshold) ==
    Cardinality({i \in 1..Len(latencies) : latencies[i] > threshold})

Flag(severity, dimension, message, action) ==
    [severity |-> severity, dimension |-> dimension, message |-> message,
     action |-> action]

\* a reliability that would also hold tool errors against the run
ReliabilityFromErrors(success, totalErrors) ==
    IF success /\ totalErrors = 0 THEN 100 ELSE 0

\* event.success ? 100 : 0; totalErrors is computed beside it and never read
Reliability(success, totalErrors) == IF success THEN 100 ELSE 0

ReliabilityFlag(error) ==
    Flag("critical", "reliability", "Run failed: " \o error,
         "Check model provider status or reduce prompt complexity")

\* a scope check that would run without an allow-list
ScopedAnyList(allowedTools, nViolations) == nViolations > 0

\* if (allowedTools.length > 0 && scopeViolations.length > 0)
Scoped(allowedTools, nViolations) == Len(allowedTools) > 0 /\ nViolations > 0

\* a message that would not say which tool
ScopeMessageBare(tool) == "Tool not in allowed list"

\* `Tool "${tool}" not in allowed list`
ScopeMessage(tool) == "Tool \"" \o tool \o "\" not in allowed list"

\* the scope score without its Math.max(0, ...)
ScopeScoreUnclamped(nViolations, nTools) == RateScore(nViolations, Max(nTools, 1))

\* a scope score that would be the violation rate itself
ScopeScoreOfRate(nViolations, nTools) ==
    Max(0, 100 - RateScore(nViolations, Max(nTools, 1)))

\* Math.max(0, Math.round((1 - nViolations / Math.max(nTools, 1)) * 100))
ScopeScore(nViolations, nTools) == Max(0, RateScore(nViolations, Max(nTools, 1)))

\* one flag per element of `tools`; the severity comes from the aggregate rate
ScopeAction(tool, wording) ==
    "Add \"" \o tool \o "\" to allowedTools" \o wording
        \o " or investigate why it was called"

ScopeFlags(tools, nViolations, nTools, wording) ==
    [i \in 1..Len(tools) |->
        Flag(IF 2 * nViolations > Max(nTools, 1) THEN "critical" ELSE "warning",
             "scope_adherence", ScopeMessage(tools[i]), ScopeAction(tools[i], wording))]

\* Math.max(0, Math.round((1 - nSlow / Math.max(nSamples, 1)) * 100))
LatencyScore(nSlow, nSamples) == Max(0, RateScore(nSlow, Max(nSamples, 1)))

SlowFlag(nSlow, nSamples, threshold, what) ==
    Flag(IF 2 * nSlow > Max(nSamples, 1) THEN "critical" ELSE "warning",
         "latency_efficiency",
         ToString(nSlow) \o "/" \o ToString(nSamples) \o " " \o what
            \o " calls exceeded " \o ToString(threshold) \o "ms",
         "Check model provider latency or reduce prompt size")

\* a duration check that would fire at twice the threshold
RunTooLongAtTwice(durationMs, latencyThreshold) == durationMs >= latencyThreshold * 2

\* if (event.durationMs > latencyThreshold * 2)
RunTooLong(durationMs, latencyThreshold) == durationMs > latencyThreshold * 2

DurationFlag(durationMs) ==
    Flag("warning", "latency_efficiency",
         "Total run took " \o ToString(durationMs) \o "ms",
         "Consider breaking into smaller agent tasks")

\* Math.max(0, Math.round(100 / (cost / threshold))), for cost > threshold > 0
CostScore(cost, threshold) == Max(0, JsRound(100 * threshold, cost))

\* cost.toFixed(4) of a cost in hundredths of a USD
ToFixed4(c) ==
    ToString(c \div 100) \o "." \o ToString((c % 100) \div 10)
        \o ToString(c % 10) \o "00"

\* `${costThreshold}` of a threshold in hundredths of a USD: Number's shortest
\* decimal form (0.5 for 50, 0.01 for 1)
NumStr(c) ==
    ToString(c \div 100)
        \o (IF c % 100 = 0 THEN ""
            ELSE "." \o ToString((c % 100) \div 10)
                     \o (IF c % 10 = 0 THEN "" ELSE ToString(c % 10)))

\* a cost flag that would be critical from three times the threshold on
CostFlagAtThree(cost, threshold) ==
    Flag(IF cost >= 3 * threshold THEN "critical" ELSE "warning",
         "cost_efficiency",
         "Run cost $" \o ToFixed4(cost) \o " (threshold: $" \o NumStr(threshold) \o ")",
         "Review token usage - consider shorter prompts or cheaper model for subtasks")

CostFlag(cost, threshold) ==
    Flag(IF cost > 3 * threshold THEN "critical" ELSE "warning",
         "cost_efficiency",
         "Run cost $" \o ToFixed4(cost) \o " (threshold: $" \o NumStr(threshold) \o ")",
         "Review token usage - consider shorter prompts or cheaper model for subtasks")

(***************************************************************************)
(* The weighted sum is evaluated in IEEE-754 binary64, left to right, and  *)
(* neither 0.3 nor 0.2 is a binary fraction.  A double x is kept exactly   *)
(* as the pair <<n, e>> with x = n/10 + e * 2^-55 / 10: n counts tenths,   *)
(* e the accumulated rounding error.  The literal 0.3 is 3/10 - 4 units    *)
(* and 0.2 is 2/10 + 4 units.  The operands are integers in 0..100.        *)
(***************************************************************************)
\* 2^k, for k in 0..9
Pow2(k) == <<1, 2, 4, 8, 16, 32, 64, 128, 256, 512>>[k + 1]

\* 2^m modulo 20, for m >= 2
Pow2Mod20(m) == CASE m % 4 = 2 -> 4 [] m % 4 = 3 -> 8 [] m % 4 = 0 -> 16 [] OTHER -> 12

\* the exponent k with 2^k <= n/10 + e * 2^-55 / 10 < 2^(k+1), for n >= 2
Binade(n, e) ==
    LET k == CASE n >= 640 -> 6 [] n >= 320 -> 5 [] n >= 160 -> 4 [] n >= 80 -> 3
               [] n >= 40 -> 2 [] n >= 20 -> 1 [] n >= 10 -> 0 [] n >= 5 -> -1
               [] n >= 3 -> -2 [] OTHER -> -3
    IN  IF e < 0 /\ (n = 5 \/ (k >= 0 /\ n = 10 * Pow2(k))) THEN k - 1 ELSE k

\* round to the nearest double, ties to the even significand
FlRound(n, e) ==
    IF n = 0 THEN <<0, 0>>
    ELSE LET k   == Binade(n, e)
             ulp == 10 * Pow2(k + 3)
             xm  == (Pow2(k + 3) * ((n * Pow2Mod20(52 - k)) % 20) + e) % (2 * ulp)
             low == xm % ulp
         IN  IF 2 * low < ulp \/ (2 * low = ulp /\ xm < ulp)
             THEN <<n, e - low>> ELSE <<n, e + ulp - low>>

FlTimes03(a) == FlRound(3 * a, -4 * a)
FlTimes02(a) == FlRound(2 * a, 4 * a)
FlAdd(x, y) == FlRound(x[1] + y[1], x[2] + y[2])

\* Math.round(x): the integer nearest to the double x, halves up
FlMathRound(x) ==
    IF x[1] % 10 = 5 /\ x[2] < 0 THEN x[1] \div 10 ELSE JsRound(x[1], 10)

\* Math.round(reliability * 0.3 + scope * 0.3 + cost * 0.2 + latency * 0.2).
\* The double is within 2^-40 of the exact sum, so it rounds as the exact sum
\* does unless that ends in .5; only then is the double itself worked out.
Overall(reliability, scopeAdherence, costEfficiency, latencyEfficiency) ==
    LET tenths == 3 * (reliability + scopeAdherence)
                    + 2 * (costEfficiency + latencyEfficiency)
    IN  IF tenths % 10 # 5 THEN JsRound(tenths, 10)
        ELSE FlMathRound(FlAdd(FlAdd(FlAdd(FlTimes03(reliability),
                                           FlTimes03(scopeAdherence)),
                                     FlTimes02(costEfficiency)),
                               FlTimes02(latencyEfficiency)))

TrustScore(reliability, scopeAdherence, costEfficiency, latencyEfficiency, flags) ==
    [overall |-> Overall(reliability, scopeAdherence, costEfficiency, latencyEfficiency),
     dimensions |-> [reliability |-> reliability, scopeAdherence |-> scopeAdherence,
                     costEfficiency |-> costEfficiency,
                     latencyEfficiency |-> latencyEfficiency],
     flags |-> flags]

\* computeScore of the tests (the scoring of the v0.1 engine, extracted)
computeScore_test(run, allowedTools, costThreshold, latencyThreshold) ==
    LET nV == Len(run.scopeViolations)
        nT == Len(run.toolCalls)
        scoped == Scoped(allowedTools, nV)
        scopeAdherence == IF scoped THEN ScopeScore(nV, nT) ELSE 100
        scopeFlags == IF scoped
                      THEN ScopeFlags(run.scopeViolations, nV, nT, " config")
                      ELSE <<>>
        costly == run.totalCost > costThreshold
        costEfficiency == IF costly THEN CostScore(run.totalCost, costThreshold) ELSE 100
        costFlags == IF costly THEN <<CostFlag(run.totalCost, costThreshold)>> ELSE <<>>
        nSlow == SlowCount(run.latencies, latencyThreshold)
        latencyEfficiency == IF nSlow > 0 THEN LatencyScore(nSlow, Len(run.latencies))
                             ELSE 100
        slowFlags == IF nSlow > 0
                     THEN <<SlowFlag(nSlow, Len(run.latencies), latencyThreshold, "LLM")>>
                     ELSE <<>>
    IN  TrustScore(100, scopeAdherence, costEfficiency, latencyEfficiency,
                   scopeFlags \o costFlags \o slowFlags)

\* the scoring of the demo ("mirrors plugin.ts exactly")
computeScore_demo(run, success, durationMs, allowedTools, latencyThreshold) ==
    LET nV == Len(run.scopeViolations)
        nT == Len(run.toolCalls)
        reliability == Reliability(success, run.errors)
        relFlags == IF success THEN <<>>
                    ELSE <<Flag("critical", "reliability", "Run failed",
                                "Check model provider status or reduce prompt complexity")>>
        scoped == Scoped(allowedTools, nV)
        scopeAdherence == IF scoped THEN ScopeScore(nV, nT) ELSE 100
        scopeFlags == IF scoped
                      THEN ScopeFlags(Unique(run.scopeViolations), nV, nT, "")
                      ELSE <<>>
        nSlow == SlowCount(run.latencies, latencyThreshold)
        latencyEfficiency == IF nSlow > 0 THEN LatencyScore(nSlow, Len(run.latencies))
                             ELSE 100
        slowFlags == IF nSlow > 0
                     THEN <<SlowFlag(nSlow, Len(run.latencies), latencyThreshold, "tool")>>
                     ELSE <<>>
        durFlags == IF RunTooLong(durationMs, latencyThreshold)
                    THEN <<DurationFlag(durationMs)>> ELSE <<>>
    IN  TrustScore(reliability, scopeAdherence, 100, latencyEfficiency,
                   relFlags \o scopeFlags \o slowFlags \o durFlags)

(***************************************************************************)
(* v0.1 engine: helpers.                                                   *)
(***************************************************************************)
FreshRun(sessionKey, runId, t) ==
    [runId |-> runId, sessionKey |-> sessionKey, startedAt |-> t,
     actions |-> <<>>, totalTokens |-> 0, totalCost |-> 0,
     toolCalls |-> <<>>, scopeViolations |-> <<>>, latencies |-> <<>>,
     lastActivityAt |-> t]

\* a bug that would keep the old record's log when the run identity changes
getOrCreateRunMerging(m, sessionKey, runId, t) ==
    LET run == IF MapHas(m, sessionKey)
               THEN [MapGet(m, sessionKey) EXCEPT !.runId = runId]
               ELSE FreshRun(sessionKey, runId, t)
    IN  [run EXCEPT !.lastActivityAt = t]

\* The record getOrCreateRun returns; the caller stores it with MapSet, which
\* is the runs.set of the source when it is fresh and the in-place mutation
\* of the stored object otherwise.
getOrCreateRun(m, sessionKey, runId, t) ==
    LET run == IF MapHas(m, sessionKey) /\ MapGet(m, sessionKey).runId = runId
               THEN MapGet(m, sessionKey)
               ELSE FreshRun(sessionKey, runId, t)
    IN  [run EXCEPT !.lastActivityAt = t]

\* a sweep that would remove nothing
evictStaleRunsNever(m, t) == m

evictStaleRuns(m, t) ==
    {run \in m : ~(t - run.lastActivityAt > STALE_RUN_TTL_MS)}

\* a resolution that would prefer the last active session to the event's own
resolveSessionKeyLastFirst(context) ==
    OrStr(lastActiveSessionKey, OrStr(context.sessionKey, "unknown"))

resolveSessionKey(context) ==
    OrStr(context.sessionKey, OrStr(lastActiveSessionKey, "unknown"))

\* computeScore of the v0.1 engine: the object literal it returns reads
\* score.dimensions.scopeAdherence, and no `score` is in scope there, so the
\* return statement throws a ReferenceError on every call.
computeScore_v01(run) ==
    [threw |-> TRUE, error |-> "ReferenceError: score is not defined"]

(***************************************************************************)
(* The host.  For each session it runs one agent run at a time (hostRun)   *)
(* and keeps one context object (ctx) that it may hand to several hooks;   *)
(* it may also hand a hook a new object with the same host fields.         *)
(* Whether its contexts carry sessionKey and runId is a property of the    *)
(* host (variable host), fixed for a behaviour.                            *)
(***************************************************************************)
NewContext(sk, rid) ==
    [sessionKey |-> sk, runId |-> rid,
     autheme_llm_start |-> 0, autheme_session_key |-> "", autheme_run_id |-> ""]

HostContextFor(s, r) ==
    NewContext(IF host.exposesKey THEN s ELSE "", IF host.exposesRunId THEN r ELSE "")

\* Whether the host hands this hook the session's kept context object: to every
\* hook ("all"), to the two LLM hooks only ("llm"), or to none, making a new
\* object for every hook call ("none").
Reuses(hook) ==
    \/ host.shares = "all"
    \/ host.shares = "llm" /\ hook \in {"llm_input", "llm_output"}

\* the context object a hook of session s receives
Context(s, hook) == IF Reuses(hook) THEN ctx[s] ELSE HostContextFor(s, hostRun[s])

\* log entries held by the registry
TotalActions(m) ==
    LET n(k) == IF MapHas(m, k) THEN Len(MapGet(m, k).actions) ELSE 0
    IN  n("s1") + n("s2") + n("unknown")

NextHostRun(r) == IF r = "r1" THEN "r2" ELSE "r1"

\* The host starts the next run of session s, with a new context object.
HostNewRun(s) ==
    /\ variant = "v01"
    /\ hostRun[s] = "r1"
    /\ Cardinality({x \in Sessions : hostRun[x] # "r1"}) < MaxNewRuns
    /\ hostRun' = [hostRun EXCEPT ![s] = NextHostRun(@)]
    /\ ctx' = [ctx EXCEPT ![s] = HostContextFor(s, NextHostRun(hostRun[s]))]
    /\ UNCHANGED <<scoring, variant, now, config, host, runs, lastActiveSessionKey,
                   activeRuns, inflight, out>>



Log(level, msg) == [level |-> level, msg |-> msg]

NoScore == [overall |-> 0,
            dimensions |-> [reliability |-> 0, scopeAdherence |-> 0,
                            costEfficiency |-> 0, latencyEfficiency |-> 0],
            flags |-> <<>>]

\* what the last handler showed: how it ended, what it logged, the score it logged
Out(result, logs, scored, score) ==
    [result |-> result, logs |-> logs, scored |-> scored, score |-> score]

\* the line that shows the score, and the two lines of each flag
ScoreLine(score) ==
    "Trust Score: " \o ToString(score.overall)
        \o "  (reliability=" \o ToString(score.dimensions.reliability)
        \o " | scope=" \o ToString(score.dimensions.scopeAdherence)
        \o " | cost=" \o ToString(score.dimensions.costEfficiency)
        \o " | latency=" \o ToString(score.dimensions.latencyEfficiency) \o ")"

FlagLines(flags) ==
    [i \in 1..(2 * Len(flags)) |->
        IF i % 2 = 1
        THEN Log("info", "[" \o flags[(i + 1) \div 2].dimension \o "] "
                           \o flags[(i + 1) \div 2].message)
        ELSE Log("info", "-> " \o flags[i \div 2].action)]

\* no score computation on its own is under way
NoScoring == [fn |-> "none"]

Returned(hook) == Out("returned", <<>>, FALSE, NoScore)
\* the handler returned after writing these lines
Logged(logs) == Out("returned", logs, FALSE, NoScore)

\* logAction of the v0.1 engine: one console line, under verbose only
logAction(label, detail) ==
    IF config.verbose THEN <<Log("info", label \o ": " \o detail)>> ELSE <<>>
Raised(hook, err) == Out("raised", <<Log("error", err)>>, FALSE, NoScore)

(***************************************************************************)
(* v0.1 engine: hook handlers.                                             *)
(***************************************************************************)
llm_input(s) ==
    LET context == Context(s, "llm_input")
        evicted == evictStaleRuns(runs, now)
        sessionKey == resolveSessionKey(context)
        runId == OrStr(context.runId, GenRunId(now))
        run == getOrCreateRun(evicted, sessionKey, runId, now)
    IN  /\ variant = "v01"
        /\ lastActiveSessionKey' = sessionKey
        /\ runs' = MapSet(evicted, sessionKey, run)
        /\ ctx' = IF Reuses("llm_input")
                  THEN [ctx EXCEPT ![s].autheme_llm_start = now,
                                   ![s].autheme_session_key = sessionKey,
                                   ![s].autheme_run_id = runId]
                  ELSE ctx
        /\ out' = Logged(logAction("llm_input", "model=m session=" \o sessionKey))
        /\ UNCHANGED <<scoring, variant, now, config, host, hostRun, activeRuns, inflight>>

\* event.usage: no usage at all (every field missing), or all three fields
Usages == {[inputTokens |-> NoNum, outputTokens |-> NoNum, cost |-> NoNum],
           [inputTokens |-> 10, outputTokens |-> 5, cost |-> 30]}

\* a count that would leave out the output tokens
UsageTokensInputOnly(usage) == OrZero(usage.inputTokens)

\* a sum that would take the absent counts as they are encoded
UsageTokensRaw(usage) == usage.inputTokens + usage.outputTokens

\* (event.usage?.inputTokens || 0) + (event.usage?.outputTokens || 0)
UsageTokens(usage) == OrZero(usage.inputTokens) + OrZero(usage.outputTokens)

llm_output(s, usage) ==
    LET context == Context(s, "llm_output")
        sessionKey == OrStr(context.autheme_session_key, resolveSessionKey(context))
        runId == OrStr(context.autheme_run_id, GenRunId(now))
        startTime == OrNum(context.autheme_llm_start, now)
        run == getOrCreateRun(runs, sessionKey, runId, now)
        latencyMs == now - startTime
        tokens == UsageTokens(usage)
        cost == OrZero(usage.cost)
        run2 == [run EXCEPT
                   !.totalTokens = @ + tokens,
                   !.totalCost = @ + cost,
                   !.latencies = Append(@, latencyMs),
                   !.actions = Append(@, [type |-> "llm_call", tokens |-> tokens,
                                          cost |-> cost, latencyMs |-> latencyMs])]
    IN  /\ variant = "v01"
        /\ runs' = MapSet(runs, sessionKey, run2)
        /\ TotalActions(runs') <= MaxActions
        /\ out' = Logged(logAction("llm_output",
                     "model=m tokens=" \o ToString(tokens) \o " cost=$" \o ToFixed4(cost)
                        \o " latency=" \o ToString(latencyMs) \o "ms"))
        /\ UNCHANGED <<scoring, variant, now, config, host, hostRun, ctx,
                       lastActiveSessionKey, activeRuns, inflight>>

after_tool_call_v01(s, eventToolName) ==
    LET context == Context(s, "after_tool_call")
        sessionKey == resolveSessionKey(context)
        runId == OrStr(context.autheme_run_id, GenRunId(now))
        run == getOrCreateRun(runs, sessionKey, runId, now)
        toolName == OrStr(eventToolName, "unknown")
        scopeViolation == Len(config.allowedTools) > 0
                          /\ ~Includes(config.allowedTools, toolName)
        run2 == [run EXCEPT
                   !.toolCalls = Append(@, toolName),
                   !.scopeViolations = IF scopeViolation THEN Append(@, toolName) ELSE @,
                   !.actions = Append(@, [type |-> "tool_call", toolName |-> toolName,
                                          scopeViolation |-> scopeViolation])]
    IN  /\ variant = "v01"
        /\ runs' = MapSet(runs, sessionKey, run2)
        /\ TotalActions(runs') <= MaxActions
        /\ out' = Logged(logAction("tool_call",
                     "tool=" \o toolName
                        \o (IF scopeViolation THEN " SCOPE VIOLATION" ELSE "")))
        /\ UNCHANGED <<scoring, variant, now, config, host, hostRun, ctx,
                       lastActiveSessionKey, activeRuns, inflight>>

message_processed(s) ==
    LET context == Context(s, "message.processed")
        sessionKey == resolveSessionKey(context)
        score == computeScore_v01(MapGet(runs, sessionKey))
    IN  /\ variant = "v01"
        /\ IF ~MapHas(runs, sessionKey) \/ Len(MapGet(runs, sessionKey).actions) = 0
           THEN out' = Returned("message.processed")
           ELSE \* computeScore throws; the handler has no try/catch
                out' = Raised("message.processed", score.error)
        /\ UNCHANGED <<scoring, variant, now, config, host, hostRun, ctx, runs,
                       lastActiveSessionKey, activeRuns, inflight>>

\* Date.now() advances
TickV01 ==
    /\ variant = "v01"
    /\ now < T0 + MaxTicks * TickMsV01
    /\ now' = now + TickMsV01
    /\ UNCHANGED <<scoring, variant, config, host, hostRun, ctx, runs, lastActiveSessionKey,
                   activeRuns, inflight, out>>

Configs_v01 ==
    {[allowedTools |-> at, costAlertThreshold |-> DEFAULT_COST_THRESHOLD,
      latencyAlertThreshold |-> DEFAULT_LATENCY_THRESHOLD, apiKey |-> "key",
      logLocally |-> TRUE, verbose |-> FALSE] : at \in {<<"read">>}}

Hosts == [exposesKey : BOOLEAN, exposesRunId : BOOLEAN, shares : {"all", "llm", "none"}]

InitV01 ==
    /\ variant = "v01"
    /\ now = T0
    /\ config \in Configs_v01
    /\ host \in Hosts
    /\ hostRun = [s \in Sessions |-> "r1"]
    /\ ctx = [s \in Sessions |-> HostContextFor(s, "r1")]
    /\ runs = {}
    /\ lastActiveSessionKey = ""
    /\ activeRuns = {}
    /\ inflight = <<>>
    /\ out = Returned("register")
    /\ scoring = NoScoring

NextV01 ==
    \/ \E s \in Sessions : HostNewRun(s)
    \/ \E s \in Sessions : llm_input(s)
    \/ \E s \in Sessions, u \in Usages : llm_output(s, u)
    \/ \E s \in Sessions, t \in ToolInputs : after_tool_call_v01(s, t)
    \/ \E s \in Sessions : message_processed(s)
    \/ TickV01

SpecV01 == InitV01 /\ [][NextV01]_vars

\* The clock of the v0.1 engine keeps advancing whatever the host does; the
\* host owes the engine no event.
FairSpecV01 == SpecV01 /\ WF_vars(TickV01)

(***************************************************************************)
(* JavaScript values of the event payloads.  A tool's params or result is  *)
(* a value [kind, size]: size is the length of JSON.stringify of an object.*)
(***************************************************************************)
SANITIZE_LIMIT == 10000

Obj(n) == [kind |-> "object", size |-> n]
EmptyObj == Obj(2)
\* { error: event.error }, an object that serializes to {"error":"..."}: the
\* message (of errorLen characters, none of them escaped) and 12 more
ErrorOutput(errorLen) == Obj(errorLen + 12)

sanitize(data) ==
    IF data.kind \in {"undefined", "string"} THEN EmptyObj   \* !data || typeof !== "object"
    ELSE IF data.kind = "circular" THEN EmptyObj            \* JSON.stringify throws
    ELSE IF data.size > SANITIZE_LIMIT THEN [kind |-> "truncated", size |-> data.size]
    ELSE data

(***************************************************************************)
(* Message histories of a run-end event.  A message is [role, array,       *)
(* blocks]: array says whether content is an array (of blocks) or a string.*)
(***************************************************************************)
ToolUse(name) == [type |-> "tool_use", name |-> name]
TextBlock == [type |-> "text", name |-> ""]
Assistant(blocks) == [role |-> "assistant", array |-> TRUE, blocks |-> blocks]

Histories ==
    <<<<>>,
     <<Assistant(<<ToolUse("shell")>>)>>,
     <<[role |-> "user", array |-> FALSE, blocks |-> <<>>],
       Assistant(<<TextBlock, ToolUse("read"), ToolUse("read"), ToolUse("")>>),
       [role |-> "user", array |-> TRUE, blocks |-> <<ToolUse("shell")>>],
       [role |-> "assistant", array |-> FALSE, blocks |-> <<>>]>> >>

\* the names of the tool_use blocks of one content array
BlockTools(blocks) ==
    LET RECURSIVE B(_)
        B(i) == IF i > Len(blocks) THEN <<>>
                ELSE (IF blocks[i].type = "tool_use" /\ blocks[i].name # ""
                      THEN <<blocks[i].name>> ELSE <<>>) \o B(i + 1)
    IN  B(1)

extractToolsFromMessages(messages) ==
    LET RECURSIVE E(_)
        E(i) == IF i > Len(messages) THEN <<>>
                ELSE (IF messages[i].role = "assistant" /\ messages[i].array
                      THEN BlockTools(messages[i].blocks) ELSE <<>>) \o E(i + 1)
    IN  E(1)

(***************************************************************************)
(* v0.2 plugin.                                                            *)
(***************************************************************************)
\* a check that would take an empty allow-list for one that lists nothing
ScopeMatchListed(allowedTools, toolName) == Includes(allowedTools, toolName)

ScopeMatch(allowedTools, toolName) ==
    Len(allowedTools) = 0 \/ Includes(allowedTools, toolName)

\* tool-call events: [toolName, params, result, error, errorLen, durationMs];
\* errorLen is the length of the string event.error.  The params of the first
\* serialize to exactly the limit and its result to more; the second failed
\* with a long message, after params just over the limit; the third has
\* params that cannot be serialized and a string as its result.
ToolEvents ==
    {[toolName |-> "read", params |-> Obj(SANITIZE_LIMIT), result |-> Obj(2 * SANITIZE_LIMIT),
      error |-> Undef, errorLen |-> 0, durationMs |-> 100],
     [toolName |-> "shell", params |-> Obj(SANITIZE_LIMIT + 1),
      result |-> [kind |-> "undefined", size |-> 0],
      error |-> "denied", errorLen |-> SANITIZE_LIMIT, durationMs |-> 40000],
     [toolName |-> Undef, params |-> [kind |-> "circular", size |-> 0],
      result |-> [kind |-> "string", size |-> 5],
      error |-> "", errorLen |-> 0, durationMs |-> NoNum]}

\* log entries held by the requests in flight
Pending(q) ==
    LET RECURSIVE P(_)
        P(i) == IF i > Len(q) THEN 0 ELSE Len(q[i].actions) + P(i + 1)
    IN  P(1)

after_tool_call_v02(ctxSessionKey, event, malformed) ==
    LET sessionKey == Nullish(ctxSessionKey, "unknown")
        toolName == Nullish(event.toolName, "unknown")
        run == IF MapHas(activeRuns, sessionKey) THEN MapGet(activeRuns, sessionKey)
               ELSE [sessionKey |-> sessionKey, startedAt |-> now, actions |-> <<>>,
                     toolCalls |-> <<>>, scopeViolations |-> <<>>, latencies |-> <<>>,
                     errors |-> 0]
        duration == NullishNum(event.durationMs, 0)
        isError == event.error \notin {Undef, ""}
        scopeMatch == ScopeMatch(config.allowedTools, toolName)
        run2 == [run EXCEPT
                   !.toolCalls = Append(@, toolName),
                   !.latencies = Append(@, duration),
                   !.errors = IF isError THEN @ + 1 ELSE @,
                   !.scopeViolations = IF scopeMatch THEN @ ELSE Append(@, toolName),
                   !.actions = Append(@,
                       [type |-> "tool_call", tool |-> toolName,
                        status |-> IF isError THEN "error" ELSE "success",
                        durationMs |-> duration, scopeMatch |-> scopeMatch,
                        timestamp |-> now,
                        input |-> sanitize(event.params),
                        output |-> IF isError THEN ErrorOutput(event.errorLen)
                                   ELSE sanitize(event.result),
                        sessionId |-> sessionKey])]
        alert == IF ~scopeMatch /\ config.logLocally
                 THEN <<Log("warn", "SCOPE VIOLATION: tool \"" \o toolName
                                     \o "\" not in allowed list")>>
                 ELSE <<>>
        trace == IF config.verbose /\ config.logLocally
                 THEN <<Log("info", toolName)>> ELSE <<>>
    IN  /\ variant = "v02"
        /\ IF malformed
           THEN \* ctx or event is undefined: the TypeError is caught and logged
                /\ out' = Out("returned", <<Log("warn", "after_tool_call hook error")>>,
                              FALSE, NoScore)
                /\ UNCHANGED activeRuns
           ELSE /\ activeRuns' = MapSet(activeRuns, sessionKey, run2)
                /\ TotalActions(activeRuns') + Pending(inflight) <= MaxActions
                /\ out' = Out("returned", alert \o trace, FALSE, NoScore)
        /\ UNCHANGED <<scoring, variant, now, config, host, hostRun, ctx, runs,
                       lastActiveSessionKey, inflight>>

\* a scan that would add the missing tools without checking them against the list
MergeMessageToolsUnchecked(run, messageTools, allowedTools, t0) ==
    LET RECURSIVE M(_, _)
        M(i, r) ==
            IF i > Len(messageTools) THEN r
            ELSE IF Includes(r.toolCalls, messageTools[i]) THEN M(i + 1, r)
            ELSE M(i + 1,
                   [r EXCEPT
                      !.toolCalls = Append(@, messageTools[i]),
                      !.actions = Append(@,
                          [type |-> "tool_call", tool |-> messageTools[i],
                           status |-> "success", durationMs |-> 0, scopeMatch |-> TRUE,
                           timestamp |-> t0, input |-> EmptyObj, output |-> EmptyObj,
                           sessionId |-> r.sessionKey])])
    IN  M(1, run)

\* a scan that would put the actions it adds at the head of the log
MergeMessageToolsFront(run, messageTools, allowedTools, t0) ==
    LET RECURSIVE M(_, _)
        M(i, r) ==
            IF i > Len(messageTools) THEN r
            ELSE IF Includes(r.toolCalls, messageTools[i]) THEN M(i + 1, r)
            ELSE LET t == messageTools[i]
                     scopeMatch == Len(allowedTools) = 0 \/ Includes(allowedTools, t)
                 IN  M(i + 1,
                       [r EXCEPT
                          !.toolCalls = Append(@, t),
                          !.scopeViolations = IF scopeMatch THEN @ ELSE Append(@, t),
                          !.actions =
                              <<[type |-> "tool_call", tool |-> t, status |-> "success",
                                 durationMs |-> 0, scopeMatch |-> scopeMatch,
                                 timestamp |-> t0,
                                 input |-> EmptyObj, output |-> EmptyObj,
                                 sessionId |-> r.sessionKey]>> \o @])
    IN  M(1, run)

\* a scan that would compare the names with the calls captured before it began
MergeMessageToolsEvery(run, messageTools, allowedTools, t0) ==
    LET RECURSIVE M(_, _)
        M(i, r) ==
            IF i > Len(messageTools) THEN r
            ELSE IF Includes(run.toolCalls, messageTools[i]) THEN M(i + 1, r)
            ELSE LET t == messageTools[i]
                     scopeMatch == Len(allowedTools) = 0 \/ Includes(allowedTools, t)
                 IN  M(i + 1,
                       [r EXCEPT
                          !.toolCalls = Append(@, t),
                          !.scopeViolations = IF scopeMatch THEN @ ELSE Append(@, t),
                          !.actions = Append(@,
                              [type |-> "tool_call", tool |-> t, status |-> "success",
                               durationMs |-> 0, scopeMatch |-> scopeMatch,
                               timestamp |-> t0,
                               input |-> EmptyObj, output |-> EmptyObj,
                               sessionId |-> r.sessionKey])])
    IN  M(1, run)

\* a scan that would also book a latency sample for each tool it adds
MergeMessageToolsTimed(run, messageTools, allowedTools, t0) ==
    LET RECURSIVE M(_, _)
        M(i, r) ==
            IF i > Len(messageTools) THEN r
            ELSE IF Includes(r.toolCalls, messageTools[i]) THEN M(i + 1, r)
            ELSE LET t == messageTools[i]
                     scopeMatch == ScopeMatch(allowedTools, t)
                 IN  M(i + 1,
                       [r EXCEPT
                          !.toolCalls = Append(@, t),
                          !.latencies = Append(@, 0),
                          !.scopeViolations = IF scopeMatch THEN @ ELSE Append(@, t),
                          !.actions = Append(@,
                              [type |-> "tool_call", tool |-> t, status |-> "success",
                               durationMs |-> 0, scopeMatch |-> scopeMatch,
                               timestamp |-> t0,
                               input |-> EmptyObj, output |-> EmptyObj,
                               sessionId |-> r.sessionKey])])
    IN  M(1, run)

\* the fallback scan of agent_end: the tools of the messages the run has not captured
MergeMessageTools(run, messageTools, allowedTools, t0) ==
    LET RECURSIVE M(_, _)
        M(i, r) ==
            IF i > Len(messageTools) THEN r
            ELSE IF Includes(r.toolCalls, messageTools[i]) THEN M(i + 1, r)
            ELSE LET t == messageTools[i]
                     scopeMatch == ScopeMatch(allowedTools, t)
                 IN  M(i + 1,
                       [r EXCEPT
                          !.toolCalls = Append(@, t),
                          !.scopeViolations = IF scopeMatch THEN @ ELSE Append(@, t),
                          !.actions = Append(@,
                              [type |-> "tool_call", tool |-> t, status |-> "success",
                               durationMs |-> 0, scopeMatch |-> scopeMatch,
                               timestamp |-> t0,
                               input |-> EmptyObj, output |-> EmptyObj,
                               sessionId |-> r.sessionKey])])
    IN  M(1, run)

\* the score agent_end computes; run is the merged record when hasRun
score_v02(hasRun, run, messageTools, success, error, durationMs, cfg) ==
    LET totalTools == IF hasRun THEN Len(run.toolCalls) ELSE Len(messageTools)
        totalViolations == IF hasRun THEN Len(run.scopeViolations) ELSE 0
        totalErrors == IF hasRun THEN run.errors ELSE IF success THEN 0 ELSE 1
        totalLatencies == IF hasRun THEN run.latencies ELSE <<>>
        reliability == Reliability(success, totalErrors)
        relFlags == IF success THEN <<>>
                    ELSE <<ReliabilityFlag(Nullish(error, "unknown error"))>>
        scoped == Scoped(cfg.allowedTools, totalViolations)
        scopeAdherence == IF scoped THEN ScopeScore(totalViolations, totalTools) ELSE 100
        scopeFlags == IF scoped
                      THEN ScopeFlags(Unique(IF hasRun THEN run.scopeViolations ELSE <<>>),
                                      totalViolations, totalTools, "")
                      ELSE <<>>
        nSlow == SlowCount(totalLatencies, cfg.latencyThreshold)
        latencyEfficiency == IF nSlow > 0 THEN LatencyScore(nSlow, Len(totalLatencies))
                             ELSE 100
        slowFlags == IF nSlow > 0
                     THEN <<SlowFlag(nSlow, Len(totalLatencies), cfg.latencyThreshold,
                                     "tool")>>
                     ELSE <<>>
        durFlags == IF RunTooLong(durationMs, cfg.latencyThreshold)
                    THEN <<DurationFlag(durationMs)>> ELSE <<>>
    IN  TrustScore(reliability, scopeAdherence, 100, latencyEfficiency,
                   relFlags \o scopeFlags \o slowFlags \o durFlags)

\* a plugin that would report without a credential
HasCredentialAlways(credential) == TRUE

\* if (agentToken && ...), if (apiKey): the empty string is falsy
HasCredential(credential) == credential # ""

\* the body agent_end posts to /v1/ingest
Payload_v02(agentName, run) ==
    [agent_id |-> agentName,
     actions |-> [i \in 1..Len(run.actions) |->
                    [session_id |-> run.actions[i].sessionId,
                     type |-> run.actions[i].type, tool |-> run.actions[i].tool,
                     input |-> run.actions[i].input, output |-> run.actions[i].output,
                     status |-> run.actions[i].status,
                     duration_ms |-> run.actions[i].durationMs,
                     timestamp |-> run.actions[i].timestamp, signature |-> ""]]]

\* a dispatch that would add the actions to the session's request in flight
DispatchBatched(q, payload) ==
    IF \E j \in 1..Len(q) : q[j].actions[1].session_id = payload.actions[1].session_id
    THEN [j \in 1..Len(q) |->
            IF q[j].actions[1].session_id = payload.actions[1].session_id
            THEN [q[j] EXCEPT !.actions = @ \o payload.actions] ELSE q[j]]
    ELSE Append(q, payload)

\* fetch(url, { ..., body: JSON.stringify(payload) }): the request takes the
\* payload as it is serialized by the call
Dispatch(q, payload) == Append(q, payload)

STALE_AGE_MS == 3600000

\* the sweep at the end of agent_end
evictStale_v02(m, t) == {r \in m : ~(t - r.startedAt > STALE_AGE_MS)}

\* run-end events: [messages, success, error, durationMs]
EndEvents ==
    {[messages |-> r[1], success |-> r[2], error |-> r[3], durationMs |-> r[4]] :
        r \in {<<Histories[1], TRUE, Undef, 1000>>, <<Histories[2], TRUE, Undef, 70000>>,
               <<Histories[3], FALSE, "boom", 1000>>, <<Histories[1], FALSE, Undef, 70000>>,
               <<Histories[3], TRUE, Undef, 1000>>}}

\* where the handler throws: nowhere; on a malformed ctx or message history;
\* in logger.info; in fetch, synchronously
Failures == {"none", "messages", "info", "fetch"}

agent_end_v02(ctxSessionKey, event, fail) ==
    LET sessionKey == Nullish(ctxSessionKey, "unknown")
        agentName == "main"
        hasRun == MapHas(activeRuns, sessionKey)
        messageTools == extractToolsFromMessages(event.messages)
        run == IF hasRun
               THEN MergeMessageTools(MapGet(activeRuns, sessionKey), messageTools,
                                      config.allowedTools, now)
               ELSE [sessionKey |-> sessionKey, actions |-> <<>>]
        merged == IF hasRun THEN MapSet(activeRuns, sessionKey, run) ELSE activeRuns
        totalTools == IF hasRun THEN Len(run.toolCalls) ELSE Len(messageTools)
        totalViolations == IF hasRun THEN Len(run.scopeViolations) ELSE 0
        score == score_v02(hasRun, run, messageTools, event.success, event.error,
                           event.durationMs, config)
        logs == IF config.logLocally
                THEN <<Log("info", ScoreLine(score)),
                       Log("info", "agent=" \o agentName \o " session=" \o sessionKey
                                     \o " tools=" \o ToString(totalTools)
                                     \o " violations=" \o ToString(totalViolations)
                                     \o " duration=" \o ToString(event.durationMs) \o "ms")>>
                        \o FlagLines(score.flags)
                ELSE <<>>
        dispatches == HasCredential(config.agentToken) /\ hasRun /\ Len(run.actions) > 0
        caught == <<Log("warn", "agent_end hook error")>>
    IN  /\ variant = "v02"
        /\ CASE fail = "messages" ->
                  \* thrown before the run is read: nothing is scored or removed
                  /\ out' = Out("returned", caught, FALSE, NoScore)
                  /\ UNCHANGED <<activeRuns, inflight>>
             [] fail = "info" ->
                  \* thrown by the first logger.info: the merge is done, the rest is not
                  /\ config.logLocally
                  /\ activeRuns' = merged
                  /\ TotalActions(activeRuns') + Pending(inflight) <= MaxActions
                  /\ out' = Out("returned", caught, FALSE, NoScore)
                  /\ UNCHANGED inflight
             [] fail = "fetch" ->
                  \* thrown by fetch itself: scored and logged, then caught
                  /\ dispatches
                  /\ activeRuns' = merged
                  /\ TotalActions(activeRuns') + Pending(inflight) <= MaxActions
                  /\ out' = Out("returned", logs \o caught, config.logLocally, score)
                  /\ UNCHANGED inflight
             [] OTHER ->
                  /\ TotalActions(merged) + Pending(inflight) <= MaxActions
                  /\ inflight' = IF dispatches
                                 THEN Dispatch(inflight, Payload_v02(agentName, run))
                                 ELSE inflight
                  /\ Len(inflight') <= MaxInflight
                  /\ activeRuns' = evictStale_v02(MapDelete(merged, sessionKey), now)
                  /\ out' = Out("returned", logs, config.logLocally, score)
        /\ UNCHANGED <<scoring, variant, now, config, host, hostRun, ctx, runs,
                       lastActiveSessionKey>>

\* the settling of a fetch whose rejection nothing would catch
SettleUncaught_v02(i, outcome) ==
    /\ variant = "v02"
    /\ i \in 1..Len(inflight)
    /\ inflight' = [j \in 1..(Len(inflight) - 1) |->
                      IF j < i THEN inflight[j] ELSE inflight[j + 1]]
    /\ out' = IF outcome = "rejected"
              THEN [out EXCEPT !.result = "raised"]
              ELSE out
    /\ UNCHANGED <<scoring, variant, now, config, host, hostRun, ctx, runs,
                   lastActiveSessionKey, activeRuns>>

\* a settling that would send a rejected request again
SettleRetrying_v02(i, outcome) ==
    /\ variant = "v02"
    /\ i \in 1..Len(inflight)
    /\ inflight' = IF outcome = "rejected" THEN inflight
                   ELSE [j \in 1..(Len(inflight) - 1) |->
                           IF j < i THEN inflight[j] ELSE inflight[j + 1]]
    /\ out' = IF config.verbose /\ config.logLocally
              THEN [out EXCEPT !.logs =
                      <<IF outcome = "rejected" THEN Log("warn", "API report failed")
                        ELSE Log("info", "API report: " \o outcome)>>]
              ELSE out
    /\ UNCHANGED <<scoring, variant, now, config, host, hostRun, ctx, runs,
                   lastActiveSessionKey, activeRuns>>

\* the i-th pending fetch settles: 2xx, an HTTP error status, or a rejection
Settle_v02(i, outcome) ==
    /\ variant = "v02"
    /\ i \in 1..Len(inflight)
    /\ inflight' = [j \in 1..(Len(inflight) - 1) |->
                      IF j < i THEN inflight[j] ELSE inflight[j + 1]]
    /\ out' = IF config.verbose /\ config.logLocally
              THEN [out EXCEPT !.logs =
                      <<IF outcome = "rejected" THEN Log("warn", "API report failed")
                        ELSE Log("info", "API report: " \o outcome)>>]
              ELSE out
    /\ UNCHANGED <<scoring, variant, now, config, host, hostRun, ctx, runs,
                   lastActiveSessionKey, activeRuns>>

TickV02 ==
    /\ variant = "v02"
    /\ now < T0 + MaxTicksV02 * TickMsV02
    /\ now' = now + TickMsV02
    /\ UNCHANGED <<scoring, variant, config, host, hostRun, ctx, runs, lastActiveSessionKey,
                   activeRuns, inflight, out>>

Config_v02(agentToken, allowedTools, logLocally, verbose) ==
    [apiEndpoint |-> "https://api.authe.me", agentToken |-> agentToken,
     allowedTools |-> allowedTools, latencyThreshold |-> DEFAULT_LATENCY_THRESHOLD,
     logLocally |-> logLocally, verbose |-> verbose]

Configs_v02 ==
    {Config_v02("tok", <<"read">>, TRUE, FALSE), Config_v02("tok", <<"read">>, TRUE, TRUE),
     Config_v02("tok", <<>>, TRUE, FALSE), Config_v02("", <<"read">>, TRUE, FALSE),
     Config_v02("tok", <<"read">>, FALSE, FALSE), Config_v02("", <<>>, FALSE, TRUE)}

NoHost == [exposesKey |-> TRUE, exposesRunId |-> FALSE, shares |-> "none"]

InitV02 ==
    /\ variant = "v02"
    /\ now = T0
    /\ config \in Configs_v02
    /\ host = NoHost
    /\ hostRun = [s \in Sessions |-> "r1"]
    /\ ctx = [s \in Sessions |-> NewContext(s, "")]
    /\ runs = {}
    /\ lastActiveSessionKey = ""
    /\ activeRuns = {}
    /\ inflight = <<>>
    /\ out = Out("returned", <<>>, FALSE, NoScore)
    /\ scoring = NoScoring

Outcomes == {"200", "401", "rejected"}

Keys_v02 == Sessions \cup {Undef}

NextV02 ==
    \/ \E k \in Keys_v02, e \in ToolEvents : after_tool_call_v02(k, e, FALSE)
    \/ \E e \in ToolEvents : after_tool_call_v02(Undef, e, TRUE)
    \/ \E k \in Keys_v02, e \in EndEvents, f \in Failures \ {"messages"} :
          agent_end_v02(k, e, f)
    \/ \E e \in EndEvents : agent_end_v02(Undef, e, "messages")
    \/ \E i \in 1..MaxInflight, o \in Outcomes : Settle_v02(i, o)
    \/ TickV02

SpecV02 == InitV02 /\ [][NextV02]_vars

\* the v0.2 plugin serving a single session
NextV02One ==
    \/ \E e \in ToolEvents : after_tool_call_v02("s1", e, FALSE)
    \/ \E e \in ToolEvents : after_tool_call_v02(Undef, e, TRUE)
    \/ \E e \in EndEvents, f \in Failures \ {"messages"} : agent_end_v02("s1", e, f)
    \/ \E e \in EndEvents : agent_end_v02(Undef, e, "messages")
    \/ \E i \in 1..MaxInflight, o \in Outcomes : Settle_v02(i, o)
    \/ TickV02

SpecV02One == InitV02 /\ [][NextV02One]_vars

(***************************************************************************)
(* The agent_end-only plugin: it keeps no registry; everything comes from  *)
(* the run-end event.                                                      *)
(***************************************************************************)
\* every tool_use of the assistant messages, repeats included
toolCalls_ae(messages) == extractToolsFromMessages(messages)

scopeViolations_ae(toolCalls, allowedTools) ==
    SelectSeq(toolCalls, LAMBDA t : Len(allowedTools) > 0 /\ ~Includes(allowedTools, t))

\* Math.max(0, Math.round(100 * threshold / durationMs)), for durationMs > threshold
RunLatencyScore(durationMs, threshold) == Max(0, JsRound(100 * threshold, durationMs))

RunLatencyFlag(durationMs, threshold) ==
    Flag(IF durationMs > threshold * 3 THEN "critical" ELSE "warning",
         "latency_efficiency",
         "Run took " \o ToString(durationMs) \o "ms (threshold: " \o ToString(threshold)
            \o "ms)",
         "Check model provider latency or reduce prompt size")

score_ae(toolCalls, scopeViolations, success, error, durationMs, cfg) ==
    LET reliability == IF success THEN 100 ELSE 0
        relFlags == IF success THEN <<>>
                    ELSE <<ReliabilityFlag(Nullish(error, "unknown error"))>>
        nV == Len(scopeViolations)
        scoped == Scoped(cfg.allowedTools, nV)
        scopeAdherence == IF scoped THEN ScopeScore(nV, Len(toolCalls)) ELSE 100
        scopeFlags == IF scoped
                      THEN ScopeFlags(Unique(scopeViolations), nV, Len(toolCalls), " config")
                      ELSE <<>>
        slow == durationMs > cfg.latencyAlertThreshold
        latencyEfficiency == IF slow
                             THEN RunLatencyScore(durationMs, cfg.latencyAlertThreshold)
                             ELSE 100
        slowFlags == IF slow
                     THEN <<RunLatencyFlag(durationMs, cfg.latencyAlertThreshold)>>
                     ELSE <<>>
    IN  TrustScore(reliability, scopeAdherence, 100, latencyEfficiency,
                   relFlags \o scopeFlags \o slowFlags)

Payload_ae(agentName, sessionKey, t, toolCalls, scopeViolations, score, durationMs, cfg) ==
    [agent_id |-> agentName, session_key |-> sessionKey, run_id |-> GenRunId(t),
     started_at |-> t - durationMs, completed_at |-> t,
     actions |-> [i \in 1..Len(toolCalls) |->
                    [type |-> "tool_call", toolName |-> toolCalls[i],
                     scopeViolation |-> Len(cfg.allowedTools) > 0
                                          /\ ~Includes(cfg.allowedTools, toolCalls[i])]],
     trust_score |-> [overall |-> score.overall,
                      dimensions |->
                        [reliability |-> score.dimensions.reliability,
                         scope_adherence |-> score.dimensions.scopeAdherence,
                         cost_efficiency |-> score.dimensions.costEfficiency,
                         latency_efficiency |-> score.dimensions.latencyEfficiency],
                      flags |-> score.flags],
     summary |-> [total_tokens |-> 0, total_cost |-> 0, tool_calls |-> Len(toolCalls),
                  scope_violations |-> Len(scopeViolations),
                  avg_latency_ms |-> durationMs]]

agent_end_ae(ctxSessionKey, event, fail) ==
    LET agentName == "main"
        sessionKey == Nullish(ctxSessionKey, "unknown")
        toolCalls == toolCalls_ae(event.messages)
        scopeViolations == scopeViolations_ae(toolCalls, config.allowedTools)
        score == score_ae(toolCalls, scopeViolations, event.success, event.error,
                          event.durationMs, config)
        logs == IF config.logLocally
                THEN <<Log("info", ScoreLine(score))>> \o FlagLines(score.flags)
                       \o (IF config.verbose
                           THEN <<Log("info", "agent=" \o agentName \o " session="
                                                \o sessionKey \o " tools="
                                                \o ToString(Len(toolCalls))
                                                \o " violations="
                                                \o ToString(Len(scopeViolations))
                                                \o " duration="
                                                \o ToString(event.durationMs) \o "ms")>>
                           ELSE <<>>)
                ELSE <<>>
        caught == <<Log("warn", "agent_end hook error")>>
    IN  /\ variant = "ae"
        /\ CASE fail = "messages" ->
                  /\ out' = Out("returned", caught, FALSE, NoScore)
                  /\ UNCHANGED inflight
             [] fail = "info" ->
                  /\ config.logLocally
                  /\ out' = Out("returned", caught, FALSE, NoScore)
                  /\ UNCHANGED inflight
             [] fail = "fetch" ->
                  /\ HasCredential(config.apiKey)
                  /\ out' = Out("returned", logs \o caught, config.logLocally, score)
                  /\ UNCHANGED inflight
             [] OTHER ->
                  /\ inflight' = IF HasCredential(config.apiKey)
                                 THEN Append(inflight,
                                        Payload_ae(agentName, sessionKey, now, toolCalls,
                                                   scopeViolations, score,
                                                   event.durationMs, config))
                                 ELSE inflight
                  /\ Len(inflight') <= MaxInflight
                  /\ out' = Out("returned", logs, config.logLocally, score)
        /\ UNCHANGED <<scoring, variant, now, config, host, hostRun, ctx, runs,
                       lastActiveSessionKey, activeRuns>>

\* the i-th pending fetch settles; only a rejection has a handler
Settle_ae(i, outcome) ==
    /\ variant = "ae"
    /\ i \in 1..Len(inflight)
    /\ inflight' = [j \in 1..(Len(inflight) - 1) |->
                      IF j < i THEN inflight[j] ELSE inflight[j + 1]]
    /\ out' = IF outcome = "rejected" /\ config.verbose
              THEN [out EXCEPT !.logs = <<Log("warn", "API report failed")>>]
              ELSE out
    /\ UNCHANGED <<scoring, variant, now, config, host, hostRun, ctx, runs,
                   lastActiveSessionKey, activeRuns>>

TickAE ==
    /\ variant = "ae"
    /\ now < T0 + MaxTicksV02
    /\ now' = now + 1
    /\ UNCHANGED <<scoring, variant, config, host, hostRun, ctx, runs, lastActiveSessionKey,
                   activeRuns, inflight, out>>

Config_ae(apiKey, allowedTools, logLocally, verbose) ==
    [apiKey |-> apiKey, endpoint |-> "https://dashboard.authe.me/v1/runs/ingest",
     allowedTools |-> allowedTools, costAlertThreshold |-> DEFAULT_COST_THRESHOLD,
     latencyAlertThreshold |-> DEFAULT_LATENCY_THRESHOLD,
     logLocally |-> logLocally, verbose |-> verbose]

Configs_ae ==
    {Config_ae(k, a, l, v) : k \in {"", "key"}, a \in {<<>>, <<"read">>},
                             l \in BOOLEAN, v \in BOOLEAN}

\* the run-end events of the v0.2 plugin, and one that ran over three times the threshold
EndEvents_ae ==
    EndEvents \cup {[messages |-> Histories[2], success |-> TRUE, error |-> Undef,
                     durationMs |-> 90001]}

Keys_ae == {"s1", Undef}

InitAE ==
    /\ variant = "ae"
    /\ now = T0
    /\ config \in Configs_ae
    /\ host = NoHost
    /\ hostRun = [s \in Sessions |-> "r1"]
    /\ ctx = [s \in Sessions |-> NewContext(s, "")]
    /\ runs = {}
    /\ lastActiveSessionKey = ""
    /\ activeRuns = {}
    /\ inflight = <<>>
    /\ out = Out("returned", <<>>, FALSE, NoScore)
    /\ scoring = NoScoring

NextAE ==
    \/ \E k \in Keys_ae, e \in EndEvents_ae, f \in Failures : agent_end_ae(k, e, f)
    \/ \E i \in 1..MaxInflight, o \in Outcomes : Settle_ae(i, o)
    \/ TickAE

SpecAE == InitAE /\ [][NextAE]_vars

(***************************************************************************)
(* The fallback scan of the v0.2 agent_end on its own, applied to the      *)
(* record of one session, once or several times (the record outlives an    *)
(* agent_end that throws after the scan).                                  *)
(***************************************************************************)
\* the record of session s1 after one after_tool_call per name, each a
\* successful call of 100 ms
CapturedRun(toolCalls, allowedTools) ==
    [sessionKey |-> "s1", startedAt |-> T0,
     toolCalls |-> toolCalls,
     scopeViolations |-> SelectSeq(toolCalls, LAMBDA t : ~ScopeMatch(allowedTools, t)),
     latencies |-> [i \in 1..Len(toolCalls) |-> 100],
     errors |-> 0,
     actions |-> [i \in 1..Len(toolCalls) |->
                    [type |-> "tool_call", tool |-> toolCalls[i], status |-> "success",
                     durationMs |-> 100,
                     scopeMatch |-> ScopeMatch(allowedTools, toolCalls[i]),
                     timestamp |-> T0, input |-> Obj(40), output |-> Obj(40),
                     sessionId |-> "s1"]]]

CapturedLists ==
    {<<"read">>, <<"shell">>, <<"unknown">>, <<"read", "read">>, <<"read", "shell">>,
     <<"unknown", "read", "unknown">>}

ScanHistories ==
    Histories \o << <<Assistant(<<ToolUse("shell"), ToolUse("read")>>),
                      Assistant(<<ToolUse("shell"), TextBlock, ToolUse("write")>>)>> >>

\* the loop of agent_end over the tools of one message history
Scan(h) ==
    /\ variant = "scan"
    /\ Len(scoring.scanned) < MaxScans
    /\ activeRuns' = {MergeMessageTools(r, extractToolsFromMessages(ScanHistories[h]),
                                        config.allowedTools, now) : r \in activeRuns}
    /\ scoring' = [scoring EXCEPT !.scanned = Append(@, h)]
    /\ UNCHANGED <<variant, now, config, host, hostRun, ctx, runs, lastActiveSessionKey,
                   inflight, out>>

InitScan ==
    /\ variant = "scan"
    /\ now = T0
    /\ config \in Configs_v02
    /\ host = NoHost
    /\ hostRun = [s \in Sessions |-> "r1"]
    /\ ctx = [s \in Sessions |-> NewContext(s, "")]
    /\ runs = {}
    /\ lastActiveSessionKey = ""
    /\ \E toolCalls \in CapturedLists :
          activeRuns = {CapturedRun(toolCalls, config.allowedTools)}
    /\ inflight = <<>>
    /\ out = Out("returned", <<>>, FALSE, NoScore)
    /\ scoring = [fn |-> "scan", scanned |-> <<>>]

NextScan == \E h \in 1..Len(ScanHistories) : Scan(h)

SpecScan == InitScan /\ [][NextScan]_vars

(***************************************************************************)
(* The v0.2 plugin registered twice in one process.  activeRuns is a const *)
(* of the module, so both registrations use the same Map; what differs is  *)
(* the settings each register call closed over.  The variable config holds *)
(* the settings of the registration whose handler the host calls next.     *)
(***************************************************************************)
Registrations ==
    <<Config_v02("tok", <<"read">>, TRUE, FALSE), Config_v02("tok", <<>>, TRUE, FALSE)>>

\* the registration whose handlers run with the current settings
Handling == IF config = Registrations[1] THEN 1 ELSE 2

\* the Map the handlers of registration i read and write
Registry(i) == activeRuns

\* the host turns to the handlers of the other registration
HostDispatch ==
    /\ variant = "v02"
    /\ config \in {Registrations[1], Registrations[2]}
    /\ config' = Registrations[3 - Handling]
    /\ UNCHANGED <<scoring, variant, now, host, hostRun, ctx, runs, lastActiveSessionKey,
                   activeRuns, inflight, out>>

InitTwo ==
    /\ variant = "v02"
    /\ now = T0
    /\ config \in {Registrations[1], Registrations[2]}
    /\ host = NoHost
    /\ hostRun = [s \in Sessions |-> "r1"]
    /\ ctx = [s \in Sessions |-> NewContext(s, "")]
    /\ runs = {}
    /\ lastActiveSessionKey = ""
    /\ activeRuns = {}
    /\ inflight = <<>>
    /\ out = Out("returned", <<>>, FALSE, NoScore)
    /\ scoring = NoScoring

NextTwo == NextV02One \/ HostDispatch

SpecTwo == InitTwo /\ [][NextTwo]_vars

\* the two plugins that dispatch reports
InitPlugins == InitV02 \/ InitAE
NextPlugins == NextV02 \/ NextAE
SpecPlugins == InitPlugins /\ [][NextPlugins]_vars

(***************************************************************************)
(* The score computations on their own, over run records and settings the  *)
(* handlers above do not reach within their bounds: the computeScore of    *)
(* the tests, the scoring of agent_end in the v0.2 plugin and in the       *)
(* agent_end-only plugin, and the computeScore of the demo.                *)
(***************************************************************************)
ToolLists ==
    {<<>>, <<"read">>, <<"read", "shell">>, <<"read", "shell", "shell">>,
     <<"read", "read", "shell">>, <<"shell", "curl", "shell">>}
ViolationLists == {<<>>, <<"shell">>, <<"shell", "shell">>, <<"shell", "curl", "shell">>}
LatencyLists ==
    {<<>>, <<30000>>, <<30001>>, <<1000, 2000, 45000, 50000>>, <<40000, 100, 40000>>}
Costs == {0, 50, 51, 150, 151, 200, 20001}
CostThresholds == {1, 50}
LatencyThresholds == {1, DEFAULT_LATENCY_THRESHOLD}
Durations == {0, 1000, 30000, 30001, 60000, 60001, 90000, 90001, 6000001}
Results == {<<TRUE, Undef>>, <<FALSE, "boom">>, <<FALSE, Undef>>}
ErrorCounts == {0, 2}

\* a long run: 40 tool calls of which 17 are off the list and 17 are slow
LongToolCalls == [i \in 1..40 |-> IF i <= 17 THEN "shell" ELSE "read"]
LongViolations == [i \in 1..17 |-> "shell"]
LongLatencies == [i \in 1..40 |-> IF i <= 17 THEN 40000 ELSE 100]

\* a run of 201 tool calls, the first of them off the list and slow
LongestRun ==
    [toolCalls |-> [i \in 1..201 |-> IF i = 1 THEN "shell" ELSE "read"],
     scopeViolations |-> <<"shell">>,
     latencies |-> [i \in 1..201 |-> IF i = 1 THEN 40000 ELSE 100]]

RunRecords ==
    [toolCalls : ToolLists, scopeViolations : ViolationLists, latencies : LatencyLists]
    \cup [toolCalls : {LongToolCalls}, scopeViolations : {<<>>, LongViolations},
          latencies : {<<>>, LongLatencies}]

ScoreArgs(fn, run, totalCost, errors, hasRun, allowedTools, ct, lt, result, durationMs) ==
    [fn |-> fn,
     run |-> [toolCalls |-> run.toolCalls, scopeViolations |-> run.scopeViolations,
              latencies |-> run.latencies, totalCost |-> totalCost, errors |-> errors],
     hasRun |-> hasRun, allowedTools |-> allowedTools, costThreshold |-> ct,
     latencyThreshold |-> lt, success |-> result[1], error |-> result[2],
     durationMs |-> durationMs, done |-> FALSE, score |-> NoScore]

\* the score computations
ScoreFns == {"test", "v02", "demo", "ae"}

ScoreInputs(fn) ==
    CASE fn = "test" ->
        {ScoreArgs("test", r, c, 0, TRUE, a, ct, lt, <<TRUE, Undef>>, 0) :
            r \in RunRecords, c \in Costs, a \in {<<>>, <<"read">>},
            ct \in CostThresholds, lt \in LatencyThresholds}
        \cup
        \* the longest run, at a cost of 2.01 against a threshold of 2.00
        {ScoreArgs("test", LongestRun, 201, 0, TRUE, <<"read">>, 200,
                   DEFAULT_LATENCY_THRESHOLD, <<TRUE, Undef>>, 0)}
      [] fn = "v02" ->
        {ScoreArgs("v02", r, 0, n, TRUE, a, DEFAULT_COST_THRESHOLD, lt, res, d) :
            r \in RunRecords, n \in ErrorCounts, a \in {<<>>, <<"read">>},
            lt \in LatencyThresholds, res \in Results, d \in {1000, 60000, 60001}}
        \cup
        {ScoreArgs("v02", LongestRun, 0, 0, TRUE, <<"read">>, DEFAULT_COST_THRESHOLD,
                   DEFAULT_LATENCY_THRESHOLD, <<TRUE, Undef>>, 1000)}
        \cup
        \* no record: only the tools of the message history are read
        {ScoreArgs("v02", [toolCalls |-> t, scopeViolations |-> <<>>, latencies |-> <<>>],
                   0, 0, FALSE, a, DEFAULT_COST_THRESHOLD, lt, res, d) :
            t \in ToolLists, a \in {<<>>, <<"read">>},
            lt \in LatencyThresholds, res \in Results, d \in {1000, 60000, 60001}}
      [] fn = "demo" ->
        {ScoreArgs("demo", r, 0, n, TRUE, a, DEFAULT_COST_THRESHOLD, lt, res, d) :
            r \in RunRecords, n \in ErrorCounts, a \in {<<>>, <<"read">>},
            lt \in LatencyThresholds, res \in Results, d \in {1000, 60000, 60001}}
      [] OTHER ->
        {ScoreArgs("ae", [toolCalls |-> t, scopeViolations |-> scopeViolations_ae(t, a),
                          latencies |-> <<>>],
                   0, 0, FALSE, a, DEFAULT_COST_THRESHOLD, lt, res, d) :
            t \in ToolLists \cup {LongToolCalls}, a \in {<<>>, <<"read">>},
            lt \in LatencyThresholds, res \in Results, d \in Durations}

Scored(score) == [scoring EXCEPT !.done = TRUE, !.score = score]

ScoreKeeps == <<variant, now, config, host, hostRun, ctx, runs, lastActiveSessionKey,
                activeRuns, inflight, out>>

Score_test ==
    /\ variant = "score" /\ scoring.fn = "test" /\ ~scoring.done
    /\ scoring' = Scored(computeScore_test(scoring.run, scoring.allowedTools,
                                           scoring.costThreshold,
                                           scoring.latencyThreshold))
    /\ UNCHANGED ScoreKeeps

Score_v02 ==
    /\ variant = "score" /\ scoring.fn = "v02" /\ ~scoring.done
    /\ scoring' = Scored(score_v02(scoring.hasRun, scoring.run, scoring.run.toolCalls,
                                   scoring.success, scoring.error, scoring.durationMs,
                                   [allowedTools |-> scoring.allowedTools,
                                    latencyThreshold |-> scoring.latencyThreshold]))
    /\ UNCHANGED ScoreKeeps

Score_ae ==
    /\ variant = "score" /\ scoring.fn = "ae" /\ ~scoring.done
    /\ scoring' = Scored(score_ae(scoring.run.toolCalls, scoring.run.scopeViolations,
                                  scoring.success, scoring.error, scoring.durationMs,
                                  [allowedTools |-> scoring.allowedTools,
                                   latencyAlertThreshold |-> scoring.latencyThreshold]))
    /\ UNCHANGED ScoreKeeps

Score_demo ==
    /\ variant = "score" /\ scoring.fn = "demo" /\ ~scoring.done
    /\ scoring' = Scored(computeScore_demo(scoring.run, scoring.success,
                                           scoring.durationMs, scoring.allowedTools,
                                           scoring.latencyThreshold))
    /\ UNCHANGED ScoreKeeps

InitScore ==
    /\ variant = "score"
    /\ now = T0
    /\ config = Config_ae("", <<>>, TRUE, FALSE)
    /\ host = NoHost
    /\ hostRun = [s \in Sessions |-> "r1"]
    /\ ctx = [s \in Sessions |-> NewContext(s, "")]
    /\ runs = {}
    /\ lastActiveSessionKey = ""
    /\ activeRuns = {}
    /\ inflight = <<>>
    /\ out = Out("returned", <<>>, FALSE, NoScore)
    /\ \E fn \in ScoreFns : scoring \in ScoreInputs(fn)

NextScore == Score_test \/ Score_v02 \/ Score_ae \/ Score_demo

SpecScore == InitScore /\ [][NextScore]_vars

(***************************************************************************)
(* Properties.                                                             *)
(***************************************************************************)
Percent == 0..100

InRange(score) ==
    /\ score.overall \in Percent
    /\ score.dimensions.reliability \in Percent
    /\ score.dimensions.scopeAdherence \in Percent
    /\ score.dimensions.costEfficiency \in Percent
    /\ score.dimensions.latencyEfficiency \in Percent

\* C9: for every run record, outcome and configuration with positive
\* thresholds, the four dimension scores and the overall score are integers
\* in [0,100], whichever of the score computations produced them.
C9_ScoresInRange ==
    /\ (scoring.fn # "none" /\ scoring.done) => InRange(scoring.score)
    /\ out.scored => InRange(out.score)

\* a run with more violations than tool calls and a cost of 400 times the
\* threshold has been scored: the clamps at 0 are what keeps it in range
C9_Witness ==
    /\ scoring.fn = "test" /\ scoring.done
    /\ scoring.allowedTools # <<>>
    /\ Len(scoring.run.scopeViolations) > Len(scoring.run.toolCalls)
    /\ scoring.run.totalCost > 400 * scoring.costThreshold
    /\ scoring.score.dimensions.scopeAdherence = 0
    /\ scoring.score.dimensions.costEfficiency = 0

\* the run of a score computation is clean: it succeeded, has no violation or
\* no allow-list, cost at most the threshold, and no latency sample above the
\* latency threshold (the agent_end-only plugin's one sample is the run's duration)
Clean ==
    /\ scoring.success
    /\ scoring.run.scopeViolations = <<>> \/ scoring.allowedTools = <<>>
    /\ scoring.run.totalCost <= scoring.costThreshold
    /\ \A i \in 1..Len(scoring.run.latencies) :
          scoring.run.latencies[i] <= scoring.latencyThreshold
    /\ scoring.fn = "ae" => scoring.durationMs <= scoring.latencyThreshold

Perfect == scoring.score.overall = 100 /\ scoring.score.flags = <<>>

\* C10 as stated: a clean run scores 100 overall with an empty flag list.
C10_Original == (scoring.fn # "none" /\ scoring.done /\ Clean) => Perfect

\* C10, amended: a clean run scores 100 overall; its flag list is empty when,
\* in addition, the run took at most twice the latency threshold.
C10_CleanRun ==
    (scoring.fn # "none" /\ scoring.done /\ Clean)
        => /\ scoring.score.overall = 100
           /\ scoring.durationMs <= 2 * scoring.latencyThreshold => Perfect

\* a clean run with cost and latency exactly at their thresholds, and calls to
\* a tool that is on no list because there is no list, has been scored
C10_Witness ==
    /\ scoring.fn = "test" /\ scoring.done /\ Clean
    /\ scoring.run.totalCost = scoring.costThreshold
    /\ scoring.run.latencies = <<scoring.latencyThreshold>>
    /\ scoring.run.scopeViolations # <<>>
    /\ Perfect

\* the registry keys of the v0.1 engine: session keys and the "unknown" fallback
Keys_v01 == Sessions \cup {"unknown"}

OnePerKey(m) == \A a, b \in m : a.sessionKey = b.sessionKey => a = b

\* rec holds what at most one event has put into a fresh record made at time t
NothingMerged(rec, t) ==
    /\ rec.startedAt = t
    /\ Len(rec.actions) <= 1
    /\ Len(rec.toolCalls) <= 1 /\ Len(rec.scopeViolations) <= 1
    /\ Len(rec.latencies) <= 1
    /\ rec.actions = <<>> => rec.totalTokens = 0 /\ rec.totalCost = 0
                             /\ rec.toolCalls = <<>> /\ rec.latencies = <<>>
    /\ (rec.actions # <<>> /\ rec.actions[1].type = "llm_call")
          => /\ rec.totalTokens = rec.actions[1].tokens
             /\ rec.totalCost = rec.actions[1].cost
             /\ rec.toolCalls = <<>>
    /\ (rec.actions # <<>> /\ rec.actions[1].type = "tool_call")
          => /\ rec.totalTokens = 0 /\ rec.totalCost = 0
             /\ rec.toolCalls = <<rec.actions[1].toolName>>
             /\ rec.latencies = <<>>

\* C1: the registry holds at most one record per session key, and a step that
\* leaves a session's record with another run id than it had leaves a record
\* made in that step, holding the step's own event and nothing of the old record.
C1_OneRecordNoMerge ==
    /\ [](OnePerKey(runs) /\ OnePerKey(activeRuns))
    /\ [][\A k \in Keys_v01 :
            (MapHas(runs, k) /\ MapHas(runs', k)
               /\ MapGet(runs', k).runId # MapGet(runs, k).runId)
              => /\ NothingMerged(MapGet(runs', k), now)
                 /\ MapGet(runs', k).lastActivityAt = now]_vars

\* The context kept for session s carries the run id llm_input stashed when it
\* made the session's record, and the record now has another run id and one
\* action: an event that came with another context object has replaced it.
\* (Nothing but llm_input removes records, and llm_input stashes again.)
C1_Witness ==
    \E s \in Sessions :
        /\ ctx[s].autheme_run_id # ""
        /\ MapHas(runs, ctx[s].autheme_session_key)
        /\ MapGet(runs, ctx[s].autheme_session_key).runId # ctx[s].autheme_run_id
        /\ Len(MapGet(runs, ctx[s].autheme_session_key).actions) = 1
        /\ MapGet(runs, ctx[s].autheme_session_key).startedAt > T0

\* the first host run of every session is still the current one
FirstHostRuns == hostRun = [s \in Sessions |-> "r1"]

\* C2 as stated: while the host's runs stay the same and its contexts carry the
\* session key, an llm_output or after_tool_call event of a session that has a
\* record leaves that record with its run id and with everything captured so far.
C2_Original ==
    [][(/\ host.exposesKey /\ FirstHostRuns
        /\ \/ \E s \in Sessions, u \in Usages : llm_output(s, u)
           \/ \E s \in Sessions, t \in ToolInputs : after_tool_call_v01(s, t))
          => \A k \in Sessions :
                MapHas(runs, k)
                  => /\ MapGet(runs', k).runId = MapGet(runs, k).runId
                     /\ MapGet(runs', k).totalTokens >= MapGet(runs, k).totalTokens
                     /\ Len(MapGet(runs', k).actions) >= Len(MapGet(runs, k).actions)]_vars

\* C3 as stated, for the v0.1 engine: when message.processed has been handled
\* for a session whose record has actions, the registry has no record for
\* that session key.
C3_Original ==
    [][\A s \in Sessions :
          (/\ message_processed(s)
           /\ MapHas(runs, resolveSessionKey(Context(s, "message.processed")))
           /\ MapGet(runs, resolveSessionKey(Context(s, "message.processed"))).actions
                 # <<>>)
            => ~MapHas(runs', resolveSessionKey(Context(s, "message.processed")))]_vars

\* a record of the v0.1 registry that has been idle for more than the TTL
Stale(run) == now - run.lastActivityAt > STALE_RUN_TTL_MS

C8_Original == out.result = "returned"

\* the time of the last event a record of the v0.2 registry has received
LastActivity(run) == run.actions[Len(run.actions)].timestamp

\* C4 as stated, for the sweep of the v0.2 plugin: when agent_end has been
\* handled, a record of another session is gone if its last activity is older
\* than the time-to-live and is still there, unchanged, if it is not.
C4_Original ==
    [][\A k \in Keys_v02, e \in EndEvents :
          agent_end_v02(k, e, "none")
            => \A run \in activeRuns :
                  run.sessionKey # Nullish(k, "unknown")
                    => (run \in activeRuns' <=> now - LastActivity(run) <= STALE_AGE_MS)]_vars

\* C6: when a dispatched report settles, with a rejection or a failure
\* status as with a success, the registry is what it was, the score the
\* terminal handler logged is what it was, and that handler's normal return
\* to the host stands.
C6_TransportFailureHarmless ==
    [][\A i \in 1..MaxInflight, o \in Outcomes :
          (Settle_v02(i, o) \/ Settle_ae(i, o))
            => /\ activeRuns' = activeRuns /\ runs' = runs
               /\ out'.score = out.score /\ out'.scored = out.scored
               /\ out.result = "returned" /\ out'.result = "returned"]_vars

\* a rejected report has settled and its warning is the last thing logged,
\* after a terminal event whose score stands
C6_Witness ==
    /\ out.logs = <<Log("warn", "API report failed")>>
    /\ out.scored /\ out.result = "returned"
    /\ inflight = <<>>

\* the session a pending report is about
ReportedSession(payload) == payload.actions[1].session_id

\* C7: the step that dispatches a report is the step in which agent_end
\* returns: the score is logged and the run's record is gone while the
\* report is pending; and while a report is pending a tool call of any
\* session is handled.
C7_DispatchDetached ==
    /\ [][(variant = "v02" /\ Len(inflight') > Len(inflight))
            => /\ out'.result = "returned"
               /\ out'.scored = config.logLocally
               /\ inflight'[Len(inflight')].actions # <<>>
               /\ MapHas(activeRuns, ReportedSession(inflight'[Len(inflight')]))
               /\ ~MapHas(activeRuns', ReportedSession(inflight'[Len(inflight')]))]_vars
    /\ []((variant = "v02" /\ inflight # <<>>
             /\ TotalActions(activeRuns) + Pending(inflight) < MaxActions)
            => \A k \in Keys_v02, e \in ToolEvents :
                  ENABLED after_tool_call_v02(k, e, FALSE))

\* a report is pending and the last thing handled is a tool call, which raised
\* a scope alert and left a record: it was handled while the report was in flight
C7_Witness ==
    /\ inflight # <<>>
    /\ activeRuns # {}
    /\ ~out.scored /\ out.result = "returned"
    /\ Len(out.logs) > 0 /\ out.logs[1].level = "warn"
    /\ out.logs[1] # Log("warn", "after_tool_call hook error")
    /\ out.logs[1] # Log("warn", "agent_end hook error")
    /\ out.logs[1] # Log("warn", "API report failed")

\* the flags of a score under one dimension, in order
FlagsOf(score, dimension) == SelectSeq(score.flags, LAMBDA f : f.dimension = dimension)

\* the scorings that take the run's outcome from the run-end event
TakesOutcome == scoring.fn \in {"v02", "ae", "demo"} /\ scoring.done

CountedViolations ==
    IF scoring.fn = "v02" /\ ~scoring.hasRun THEN 0 ELSE Len(scoring.run.scopeViolations)

CountedTools == Len(scoring.run.toolCalls)

ScopeScored ==
    /\ scoring.fn # "none" /\ scoring.done
    /\ scoring.allowedTools # <<>>
    /\ CountedViolations > 0

\* round(max(0, (1 - n / d) * 100)) over the rationals, halves up
HalfUpRate(n, d) ==
    IF n >= d THEN 0
    ELSE CHOOSE s \in Percent : /\ (2 * s - 1) * d <= 200 * (d - n)
                                /\ 200 * (d - n) < (2 * s + 1) * d

\* C12 as stated: with a non-empty allow-list and at least one violation the
\* scope adherence score is round(max(0, (1 - violations / max(toolCalls, 1))
\* * 100)); 1 violation in 3 calls gives 67 and 2 in 3 give 33.
C12_Original ==
    ScopeScored =>
        scoring.score.dimensions.scopeAdherence
            = HalfUpRate(CountedViolations, Max(CountedTools, 1))

\* the distinct names among the violations of the scored run
ViolatingTools == {scoring.run.scopeViolations[i] : i \in 1..Len(scoring.run.scopeViolations)}

\* C13 as stated: when violations are scored there is exactly one
\* scope_adherence flag per distinct violating tool name, and every such flag
\* is critical if violations / max(toolCalls, 1) > 0.5 and warning otherwise.
C13_Original ==
    ScopeScored =>
        LET flags == FlagsOf(scoring.score, "scope_adherence")
        IN  /\ Len(flags) = Cardinality(ViolatingTools)
            /\ {flags[i].message : i \in 1..Len(flags)}
                  = {ScopeMessage(t) : t \in ViolatingTools}
            /\ \A i \in 1..Len(flags) :
                  flags[i].severity
                     = IF 2 * CountedViolations > Max(CountedTools, 1)
                       THEN "critical" ELSE "warning"

\* C14: when the allow-list is empty, or the run has no violation (a run
\* without tool calls under a non-empty allow-list included), the scope
\* adherence score is 100 and there is no scope_adherence flag, whatever
\* tools were called.
C14_NoScopePenalty ==
    (scoring.fn # "none" /\ scoring.done
        /\ (scoring.allowedTools = <<>> \/ CountedViolations = 0))
        => /\ scoring.score.dimensions.scopeAdherence = 100
           /\ FlagsOf(scoring.score, "scope_adherence") = <<>>

\* a run that called tools, some of them recorded as violations, has been
\* scored with an empty allow-list: scope adherence is 100
C14_Witness ==
    /\ scoring.fn = "test" /\ scoring.done
    /\ scoring.allowedTools = <<>>
    /\ scoring.run.toolCalls # <<>> /\ scoring.run.scopeViolations # <<>>
    /\ scoring.score.dimensions.scopeAdherence = 100

\* the score the scored computation gives another run record and another
\* duration, all else equal
RescoreWith(run, durationMs) ==
    CASE scoring.fn = "test" ->
            computeScore_test(run, scoring.allowedTools, scoring.costThreshold,
                              scoring.latencyThreshold)
      [] scoring.fn = "v02" ->
            score_v02(scoring.hasRun, run, run.toolCalls, scoring.success, scoring.error,
                      durationMs,
                      [allowedTools |-> scoring.allowedTools,
                       latencyThreshold |-> scoring.latencyThreshold])
      [] scoring.fn = "demo" ->
            computeScore_demo(run, scoring.success, durationMs,
                              scoring.allowedTools, scoring.latencyThreshold)
      [] OTHER ->
            score_ae(run.toolCalls, run.scopeViolations, scoring.success, scoring.error,
                     durationMs,
                     [allowedTools |-> scoring.allowedTools,
                      latencyAlertThreshold |-> scoring.latencyThreshold])

Rescore(run) == RescoreWith(run, scoring.durationMs)

\* the scored run with only its first k violations
FewerViolations(k) == [scoring.run EXCEPT !.scopeViolations = SubSeq(@, 1, k)]

\* C15: for a fixed number of tool calls the scope adherence score never
\* rises with the number of violations: the same run with any smaller
\* number of violations scores at least as high on scope.
C15_ScopeMonotone ==
    (scoring.fn # "none" /\ scoring.done)
        => \A k \in 0..Len(scoring.run.scopeViolations) :
              Rescore(FewerViolations(k)).dimensions.scopeAdherence
                 >= scoring.score.dimensions.scopeAdherence

\* a run with 17 violations in 40 tool calls has been scored 57 on scope,
\* and the same run with 16 violations scores 60
C15_Witness ==
    /\ scoring.fn = "v02" /\ scoring.done /\ ScopeScored
    /\ CountedViolations = 17 /\ CountedTools = 40
    /\ scoring.score.dimensions.scopeAdherence = 57
    /\ Rescore(FewerViolations(16)).dimensions.scopeAdherence = 60

\* round(max(0, 100 / (cost / threshold))) over the rationals, halves up,
\* for cost > threshold > 0
HalfUpRatio(cost, threshold) ==
    CHOOSE s \in Percent : /\ (2 * s - 1) * cost <= 200 * threshold
                           /\ 200 * threshold < (2 * s + 1) * cost

\* C16: cost efficiency is 100 without a flag when the total cost is at most
\* the threshold (a run without cost data has cost 0); otherwise it is
\* round(max(0, 100 / (cost / threshold))) with exactly one cost_efficiency
\* flag, critical when cost / threshold > 3 and warning otherwise.
C16_CostEfficiency ==
    (scoring.fn # "none" /\ scoring.done) =>
        LET cost  == scoring.run.totalCost
            flags == FlagsOf(scoring.score, "cost_efficiency")
        IN  IF cost <= scoring.costThreshold
            THEN /\ scoring.score.dimensions.costEfficiency = 100
                 /\ flags = <<>>
            ELSE /\ scoring.score.dimensions.costEfficiency
                       = HalfUpRatio(cost, scoring.costThreshold)
                 /\ Len(flags) = 1
                 /\ flags[1].severity = IF cost > 3 * scoring.costThreshold
                                        THEN "critical" ELSE "warning"

\* a run that cost 1.50 against a threshold of 0.50 has been scored: cost
\* efficiency 33 and a warning
C16_Witness ==
    /\ scoring.fn = "test" /\ scoring.done
    /\ scoring.run.totalCost = 150 /\ scoring.costThreshold = 50
    /\ scoring.score.dimensions.costEfficiency = 33
    /\ FlagsOf(scoring.score, "cost_efficiency")[1].severity = "warning"

\* the samples of the scored run above the latency threshold: counted
\* without the filter of the score computations
SlowSamples ==
    {i \in 1..Len(scoring.run.latencies) :
        scoring.run.latencies[i] > scoring.latencyThreshold}

\* the flags under latency_efficiency other than the one about the whole
\* run's duration
SampleFlags ==
    SelectSeq(FlagsOf(scoring.score, "latency_efficiency"),
              LAMBDA f : f # DurationFlag(scoring.durationMs))

\* C17 as stated: latency efficiency is 100 with no per-sample flag when no
\* latency sample exceeds the threshold; otherwise it is round(max(0, (1 -
\* slowCount / max(sampleCount, 1)) * 100)) with exactly one latency_efficiency
\* flag that reports slowCount/sampleCount, critical if the slow rate is above
\* 0.5 and warning otherwise.
C17_Original ==
    (scoring.fn # "none" /\ scoring.done) =>
        LET nSlow    == Cardinality(SlowSamples)
            nSamples == Len(scoring.run.latencies)
        IN  IF nSlow = 0
            THEN /\ scoring.score.dimensions.latencyEfficiency = 100
                 /\ SampleFlags = <<>>
            ELSE /\ scoring.score.dimensions.latencyEfficiency
                       = HalfUpRate(nSlow, Max(nSamples, 1))
                 /\ Len(SampleFlags) = 1
                 /\ SampleFlags[1].severity = IF 2 * nSlow > Max(nSamples, 1)
                                              THEN "critical" ELSE "warning"
                 /\ SampleFlags[1].message
                       \in {ToString(nSlow) \o "/" \o ToString(nSamples) \o " " \o w
                               \o " calls exceeded " \o ToString(scoring.latencyThreshold)
                               \o "ms" : w \in {"LLM", "tool"}}

\* the scorings that check the whole run's duration apart from the samples
ChecksDuration == scoring.fn \in {"v02", "demo"} /\ scoring.done

\* the flags about the whole run's duration
DurationFlags ==
    SelectSeq(FlagsOf(scoring.score, "latency_efficiency"),
              LAMBDA f : f.message = "Total run took " \o ToString(scoring.durationMs) \o "ms")

\* C18: whatever the latency samples, there is one more flag under
\* latency_efficiency, a warning about the run's total duration, exactly when
\* the duration is above twice the latency threshold; it leaves the latency
\* efficiency score as the samples alone make it and stands beside the
\* per-sample flag when there is one.
C18_DurationFlag ==
    ChecksDuration =>
        /\ Len(DurationFlags) = IF scoring.durationMs > 2 * scoring.latencyThreshold
                                THEN 1 ELSE 0
        /\ \A i \in 1..Len(DurationFlags) : DurationFlags[i].severity = "warning"
        /\ scoring.score.dimensions.latencyEfficiency
              = RescoreWith(scoring.run, 0).dimensions.latencyEfficiency
        /\ Len(SampleFlags) = IF SlowSamples = {} THEN 0 ELSE 1
        /\ Len(FlagsOf(scoring.score, "latency_efficiency"))
              = Len(SampleFlags) + Len(DurationFlags)

\* a run of 60001 ms against a threshold of 30000 ms, two of whose four
\* samples are slow, has been scored: 50 on latency, a flag for the samples
\* and a flag for the duration
C18_Witness ==
    /\ scoring.fn = "v02" /\ scoring.done /\ scoring.hasRun
    /\ scoring.durationMs = 60001 /\ scoring.latencyThreshold = 30000
    /\ Cardinality(SlowSamples) = 2
    /\ scoring.score.dimensions.latencyEfficiency = 50
    /\ Len(SampleFlags) = 1 /\ Len(DurationFlags) = 1

\* round-half-up of reliability * 0.30 + scope * 0.30 + cost * 0.20 +
\* latency * 0.20 over the rationals: the sum is kept in tenths
HalfUpWeighted(d) ==
    LET tenths == 3 * (d.reliability + d.scopeAdherence)
                    + 2 * (d.costEfficiency + d.latencyEfficiency)
    IN  CHOOSE s \in Percent : 10 * s - 5 <= tenths /\ tenths < 10 * s + 5

\* C19 as stated: the overall score is the round-half-up of reliability *
\* 0.30 + scope * 0.30 + cost * 0.20 + latency * 0.20 over the four dimension
\* scores, with no further clamping; 100, 50, 50, 50 give 65.
C19_Original ==
    (scoring.fn # "none" /\ scoring.done)
        => scoring.score.overall = HalfUpWeighted(scoring.score.dimensions)

\* what a registry holds for a key before the key's first event
NoRecord == [actions |-> <<>>, toolCalls |-> <<>>, latencies |-> <<>>, errors |-> 0]

\* the record of key k in registry m, or the empty one
RecordOf(m, k) == IF MapHas(m, k) THEN MapGet(m, k) ELSE NoRecord

\* new is old with exactly one more action, the tool's name at the end of the
\* tool-call list and exactly one more latency sample
OneToolCallMore(old, new, toolName) ==
    /\ Len(new.actions) = Len(old.actions) + 1
    /\ SubSeq(new.actions, 1, Len(old.actions)) = old.actions
    /\ new.actions[Len(new.actions)].type = "tool_call"
    /\ new.toolCalls = Append(old.toolCalls, toolName)
    /\ Len(new.latencies) = Len(old.latencies) + 1
    /\ SubSeq(new.latencies, 1, Len(old.latencies)) = old.latencies

\* C20 as stated: handling one tool-call event appends exactly one action to
\* the session's log, appends the tool's name to the tool-call list, records
\* exactly one latency sample (the event's duration, 0 if missing) and adds one
\* to the error counter exactly when the event carries an error.
C20_Original ==
    [][/\ \A s \in Sessions, t \in ToolInputs :
             after_tool_call_v01(s, t)
                => LET k == resolveSessionKey(Context(s, "after_tool_call"))
                   IN  OneToolCallMore(RecordOf(runs, k), RecordOf(runs', k),
                                       OrStr(t, "unknown"))
       /\ \A c \in Keys_v02, e \in ToolEvents :
             after_tool_call_v02(c, e, FALSE)
                => LET k   == Nullish(c, "unknown")
                       old == RecordOf(activeRuns, k)
                       new == RecordOf(activeRuns', k)
                   IN  /\ OneToolCallMore(old, new, Nullish(e.toolName, "unknown"))
                       /\ new.latencies[Len(new.latencies)] = NullishNum(e.durationMs, 0)
                       /\ new.errors = old.errors
                                         + (IF e.error \in {Undef, ""} THEN 0 ELSE 1)]_vars

(***************************************************************************)
(* The v0.1 engine and the v0.2 plugin together: the two variants that     *)
(* capture tool calls as they happen.                                      *)
(***************************************************************************)
InitEngines == InitV01 \/ InitV02
NextEngines == NextV01 \/ NextV02
SpecEngines == InitEngines /\ [][NextEngines]_vars

\* the tool name is absent from a non-empty allow-list
OffList(allowedTools, toolName) ==
    Len(allowedTools) > 0 /\ \A i \in 1..Len(allowedTools) : allowedTools[i] # toolName

\* the names of a tool-call list that are off the allow-list, in order
OffListCalls(toolCalls) ==
    SelectSeq(toolCalls, LAMBDA t : OffList(config.allowedTools, t))

\* the tool-call actions of a v0.1 record, in order
ToolActions(run) == SelectSeq(run.actions, LAMBDA a : a.type = "tool_call")

\* C21: in every state, the violation list of every run record is the
\* sequence of its captured tool names that are absent from a non-empty
\* allow-list, in capture order (so it is empty under an empty allow-list),
\* and the actions of the record carry, call by call, the captured name and
\* the same verdict (scopeMatch in the v0.2 plugin, scopeViolation in the
\* v0.1 engine).
C21_ViolationList ==
    /\ \A r \in activeRuns :
          /\ r.scopeViolations = OffListCalls(r.toolCalls)
          /\ Len(r.actions) = Len(r.toolCalls)
          /\ \A i \in 1..Len(r.actions) :
                /\ r.actions[i].tool = r.toolCalls[i]
                /\ r.actions[i].scopeMatch = ~OffList(config.allowedTools, r.toolCalls[i])
    /\ \A r \in runs :
          /\ r.scopeViolations = OffListCalls(r.toolCalls)
          /\ Len(ToolActions(r)) = Len(r.toolCalls)
          /\ \A i \in 1..Len(r.toolCalls) :
                /\ ToolActions(r)[i].toolName = r.toolCalls[i]
                /\ ToolActions(r)[i].scopeViolation
                      = OffList(config.allowedTools, r.toolCalls[i])

\* a v0.2 record that captured a listed tool and then one off the list
C21_Witness ==
    \E r \in activeRuns :
        /\ r.toolCalls = <<"read", "shell">>
        /\ r.scopeViolations = <<"shell">>
        /\ r.actions[1].scopeMatch /\ ~r.actions[2].scopeMatch

\* a v0.1 record with a call off the list, and a v0.2 record under an empty allow-list
C21_WitnessV01 ==
    \E r \in runs : r.toolCalls = <<"shell", "read">> /\ r.scopeViolations = <<"shell">>
C21_WitnessEmpty ==
    \E r \in activeRuns : config.allowedTools = <<>> /\ Len(r.toolCalls) = 2

\* the line with which a handler reports a call of this tool as off the list
IsScopeWarning(line, toolName) ==
    \/ line = Log("warn", "SCOPE VIOLATION: tool \"" \o toolName \o "\" not in allowed list")
    \/ line = Log("info", "tool_call: tool=" \o toolName \o " SCOPE VIOLATION")

\* the last handler wrote such a line
Warned(toolName) == \E i \in 1..Len(out.logs) : IsScopeWarning(out.logs[i], toolName)

\* C22 (as stated): every tool-call event whose tool is absent from a
\* non-empty allow-list makes its handler write a scope warning while it
\* handles the event, whatever the settings and whether or not the run is
\* scored later.
C22_Original ==
    [][/\ \A k \in Keys_v02, e \in ToolEvents :
             (after_tool_call_v02(k, e, FALSE)
                 /\ OffList(config.allowedTools, Nullish(e.toolName, "unknown")))
             => Warned(Nullish(e.toolName, "unknown"))'
       /\ \A s \in Sessions, t \in ToolInputs :
             (after_tool_call_v01(s, t) /\ OffList(config.allowedTools, t))
             => Warned(t)']_vars

\* what the handlers do: the v0.2 plugin warns iff logLocally is on, the v0.1
\* engine iff verbose is on
C22_WarnsWhenLogging ==
    [][/\ \A k \in Keys_v02, e \in ToolEvents :
             after_tool_call_v02(k, e, FALSE)
             => (Warned(Nullish(e.toolName, "unknown"))'
                   <=> (config.logLocally
                          /\ OffList(config.allowedTools, Nullish(e.toolName, "unknown"))))
       /\ \A s \in Sessions, t \in ToolInputs :
             after_tool_call_v01(s, t)
             => (Warned(t)' <=> (config.verbose /\ OffList(config.allowedTools, t)))]_vars

\* the totals and lists of a record that does not exist yet
NoRecordV01 ==
    [runId |-> "", totalTokens |-> 0, totalCost |-> 0, latencies |-> <<>>,
     actions |-> <<>>, toolCalls |-> <<>>, scopeViolations |-> <<>>]

\* the record of the run with identity runId under key k in registry m, as it
\* stands before an event of that run is handled: the stored record when it
\* belongs to that run, an empty one otherwise
RunBefore(m, k, runId) ==
    IF MapHas(m, k) /\ MapGet(m, k).runId = runId THEN MapGet(m, k) ELSE NoRecordV01

\* a usage field as the claim counts it: a missing one is 0
Given(n) == IF n = NoNum THEN 0 ELSE n

\* C23: handling one model-call-end event adds the event's input plus output
\* tokens to the token total of its run and its cost to the cost total, a
\* missing usage field counting as 0; it records exactly one latency sample
\* and appends exactly one model-call action carrying these numbers; the
\* tool-call list and the violation list of the run are left as they were.
C23_ModelCall ==
    [][\A s \in Sessions, u \in Usages :
          llm_output(s, u)
          => LET context == Context(s, "llm_output")
                 k   == OrStr(context.autheme_session_key, resolveSessionKey(context))
                 new == MapGet(runs', k)
                 old == RunBefore(runs, k, new.runId)
                 n   == Len(new.actions)
             IN  /\ MapHas(runs', k)
                 /\ new.totalTokens = old.totalTokens + Given(u.inputTokens)
                                                      + Given(u.outputTokens)
                 /\ new.totalCost = old.totalCost + Given(u.cost)
                 /\ Len(new.latencies) = Len(old.latencies) + 1
                 /\ SubSeq(new.latencies, 1, Len(old.latencies)) = old.latencies
                 /\ n = Len(old.actions) + 1
                 /\ SubSeq(new.actions, 1, n - 1) = old.actions
                 /\ new.actions[n].type = "llm_call"
                 /\ new.actions[n].tokens = Given(u.inputTokens) + Given(u.outputTokens)
                 /\ new.actions[n].cost = Given(u.cost)
                 /\ new.actions[n].latencyMs = new.latencies[Len(new.latencies)]
                 /\ new.toolCalls = old.toolCalls
                 /\ new.scopeViolations = old.scopeViolations
                 /\ \A r \in runs : r.sessionKey # k => r \in runs']_vars

\* a run after two model calls with usage: both are in its totals
C23_Witness ==
    \E r \in runs :
        /\ r.totalTokens = 30 /\ r.totalCost = 60
        /\ Len(r.latencies) = 2 /\ Len(r.actions) = 2
        /\ r.actions[2].type = "llm_call" /\ r.toolCalls = <<>>

\* a run with a tool call off the list, then a model call without usage
C23_WitnessTools ==
    \E r \in runs :
        /\ r.toolCalls = <<"shell">> /\ r.scopeViolations = <<"shell">>
        /\ Len(r.actions) = 2 /\ r.actions[2].type = "llm_call"
        /\ r.actions[2].tokens = 0 /\ r.totalCost = 0 /\ Len(r.latencies) = 1

\* the names of a message history that a record has not captured, once each,
\* in order of first occurrence
MissingTools(run, names) ==
    Unique(SelectSeq(names, LAMBDA t : \A i \in 1..Len(run.toolCalls) : run.toolCalls[i] # t))

\* the action that stands for a tool found in the messages only
SyntheticAction(toolName, sessionKey, t) ==
    [type |-> "tool_call", tool |-> toolName, status |-> "success", durationMs |-> 0,
     scopeMatch |-> ~OffList(config.allowedTools, toolName), timestamp |-> t,
     input |-> EmptyObj, output |-> EmptyObj, sessionId |-> sessionKey]

\* a record after the reconciliation with the names of a message history
Reconciled(run, names) ==
    LET missing == MissingTools(run, names)
    IN  [run EXCEPT
           !.toolCalls = @ \o missing,
           !.scopeViolations =
               @ \o SelectSeq(missing, LAMBDA t : OffList(config.allowedTools, t)),
           !.actions = @ \o [i \in 1..Len(missing) |->
                               SyntheticAction(missing[i], run.sessionKey, now)]]

\* the scope score of a record
RecordScopeScore(run) ==
    IF Len(config.allowedTools) > 0 /\ Len(run.scopeViolations) > 0
    THEN ScopeScore(Len(run.scopeViolations), Len(run.toolCalls))
    ELSE 100

\* What every step of agent_end for a session with a record shows, whatever
\* the scan does: the clock and the pending fetches stay, the record is
\* removed or (when the handler threw) kept with the samples it had, and the
\* score shown is that of the event's outcome and duration.
MayBeRunEnd(k, e, f) ==
    /\ MapHas(activeRuns, k)
    /\ now' = now
    /\ Len(inflight') >= Len(inflight)
    /\ IF f = "none" THEN ~MapHas(activeRuns', k)
       ELSE /\ MapHas(activeRuns', k)
            /\ MapGet(activeRuns', k).latencies = MapGet(activeRuns, k).latencies
    /\ IF f = "info" THEN out'.score = NoScore
       ELSE /\ out'.score.dimensions.reliability = (IF e.success THEN 100 ELSE 0)
            /\ RunTooLong(e.durationMs, config.latencyThreshold)
                  <=> \E i \in 1..Len(out'.score.flags) :
                         out'.score.flags[i] = DurationFlag(e.durationMs)

\* C24: when a run-end event arrives for a session that has a record, every
\* tool name of the assistant tool_use blocks of the history that the record
\* has not captured is appended once to the tool-call list, to the violation
\* list if it is off the allow-list, and to the log as one zero-duration
\* action, a captured name adding nothing; the score of that event and the
\* report are computed from the record so completed.
C24_Reconciliation ==
    [][\A c \in Keys_v02, e \in EndEvents, f \in Failures \ {"messages"} :
          (MayBeRunEnd(Nullish(c, "unknown"), e, f) /\ agent_end_v02(c, e, f))
          => LET k   == Nullish(c, "unknown")
                 exp == Reconciled(MapGet(activeRuns, k),
                                   extractToolsFromMessages(e.messages))
             IN  /\ f \in {"info", "fetch"} => MapGet(activeRuns', k) = exp
                 /\ f = "none" => ~MapHas(activeRuns', k)
                 /\ (f = "none" /\ config.agentToken # "")
                        => /\ Len(inflight') = Len(inflight) + 1
                           /\ LET sent == inflight'[Len(inflight')].actions
                              IN  /\ Len(sent) = Len(exp.actions)
                                  /\ \A i \in 1..Len(sent) :
                                        /\ sent[i].tool = exp.actions[i].tool
                                        /\ sent[i].duration_ms = exp.actions[i].durationMs
                                        /\ sent[i].input = exp.actions[i].input
                 /\ f \in {"none", "fetch"}
                        => /\ out'.score.dimensions.scopeAdherence = RecordScopeScore(exp)
                           /\ Len(FlagsOf(out'.score, "scope_adherence"))
                                = IF Len(config.allowedTools) > 0
                                  THEN Cardinality({exp.scopeViolations[i] :
                                                      i \in 1..Len(exp.scopeViolations)})
                                  ELSE 0]_vars

\* a report whose log holds a captured call of read and, after it, the
\* zero-duration action of a shell call found in the messages only, scored
\* as one violation in two tool calls
C24_Witness ==
    /\ config.allowedTools = <<"read">>
    /\ out.score.dimensions.scopeAdherence = 50
    /\ \E i \in 1..Len(inflight) :
          /\ Len(inflight[i].actions) = 2
          /\ inflight[i].actions[1].tool = "read" /\ inflight[i].actions[1].duration_ms = 100
          /\ inflight[i].actions[2].tool = "shell" /\ inflight[i].actions[2].duration_ms = 0

\* a record that captured shell, after a run-end event that threw after the
\* scan of a history naming read twice: read was added once
C24_WitnessTwice ==
    \E r \in activeRuns :
        /\ r.toolCalls = <<"shell", "read">>
        /\ r.actions[1].durationMs = 40000 /\ r.actions[2].durationMs = 0

\* how many actions of a log are calls of this tool
CallsOf(actions, toolName) ==
    Cardinality({i \in 1..Len(actions) : actions[i].tool = toolName})

ScannedNames == {"read", "shell", "write", "unknown"}

\* C25: the message scan is idempotent by tool name.  After a scan, every
\* name of the history occurs in the action log as often as before, or once
\* if it did not occur: a name the record had not captured gets one action
\* however often the history names it, and gets no further action when the
\* same or another history naming it is scanned again; names the history does
\* not mention keep their actions.
C25_ScanIdempotent ==
    [][\A h \in 1..Len(ScanHistories) :
          Scan(h)
          => \A r \in activeRuns :
                LET new == MapGet(activeRuns', r.sessionKey)
                    names == extractToolsFromMessages(ScanHistories[h])
                IN  \A t \in ScannedNames :
                       CallsOf(new.actions, t)
                          = IF (\E i \in 1..Len(names) : names[i] = t)
                            THEN Max(1, CallsOf(r.actions, t))
                            ELSE CallsOf(r.actions, t)]_vars

\* the history that names read twice was scanned twice into a record that had
\* captured shell only: the log holds one action for read
C25_Witness ==
    /\ variant = "scan"
    /\ scoring.scanned = <<3, 3>>
    /\ \E r \in activeRuns :
          /\ r.actions[1].tool = "shell" /\ r.actions[1].durationMs = 100
          /\ CallsOf(r.actions, "read") = 1
          /\ r.actions[2].tool = "read" /\ r.actions[2].durationMs = 0

\* a message history names a tool that is off the allow-list
NamesOffList(messages) ==
    LET names == extractToolsFromMessages(messages)
    IN  \E i \in 1..Len(names) : OffList(config.allowedTools, names[i])

\* C26 (as stated): whenever a run-end event whose message history names a
\* tool absent from a non-empty allow-list is scored, the scope score is
\* below 100 and the score carries a scope_adherence flag, whether or not a
\* tool-call event was captured for the session before.
C26_Original ==
    [][\A c \in Keys_v02, e \in EndEvents, f \in {"none", "fetch"} :
          (NamesOffList(e.messages) /\ agent_end_v02(c, e, f))
          => /\ out'.score.dimensions.scopeAdherence < 100
             /\ FlagsOf(out'.score, "scope_adherence") # <<>>]_vars

\* what holds: the same for the sessions that have a record when the run ends
C26_WithRecord ==
    [][\A c \in Keys_v02, e \in EndEvents, f \in {"none", "fetch"} :
          (NamesOffList(e.messages) /\ MayBeRunEnd(Nullish(c, "unknown"), e, f)
              /\ agent_end_v02(c, e, f))
          => /\ out'.score.dimensions.scopeAdherence < 100
             /\ FlagsOf(out'.score, "scope_adherence") # <<>>]_vars

\* a queue of pending requests without its i-th
Without(q, i) == [j \in 1..(Len(q) - 1) |-> IF j < i THEN q[j] ELSE q[j + 1]]

\* C27: reporting has no retry.  A step starts at most one request, and only
\* a run-end step does: in the v0.2 plugin the step that starts a request
\* removes the record it reports, so that no later event can send it again,
\* and the agent_end-only plugin keeps no record at all.  When a request
\* settles, whether accepted, refused or rejected, it leaves the pending
\* requests, none is started in its place and nothing is put back in the
\* registry.
C27_NoRetry ==
    [][/\ Len(inflight') <= Len(inflight) + 1
       /\ Len(inflight') = Len(inflight) + 1
             => /\ SubSeq(inflight', 1, Len(inflight)) = inflight
                /\ out'.score # NoScore
                /\ variant = "v02"
                      => \E r \in activeRuns :
                            /\ ~MapHas(activeRuns', r.sessionKey)
                            /\ inflight'[Len(inflight')].actions[1].session_id
                                  = r.sessionKey
                            /\ Len(inflight'[Len(inflight')].actions) >= Len(r.actions)
                /\ variant = "ae" => activeRuns' = {}
       /\ \A i \in 1..MaxInflight, o \in Outcomes :
             (Settle_v02(i, o) \/ Settle_ae(i, o))
             => inflight' = Without(inflight, i) /\ activeRuns' = activeRuns]_vars

\* a report was rejected, the failure was logged, and nothing is pending or kept
C27_Witness ==
    /\ out.logs = <<Log("warn", "API report failed")>>
    /\ out.score # NoScore
    /\ inflight = <<>>
    /\ activeRuns = {}

\* the plugin was registered without agentToken (v0.2) or apiKey (agent_end-only)
NoCredential ==
    \/ variant = "v02" /\ config.agentToken = ""
    \/ variant = "ae" /\ config.apiKey = ""

\* C28: a plugin registered without a credential never has a request to the
\* remote service pending, whatever events it has handled: it starts none.
C28_LocalOnly == NoCredential => inflight = <<>>

\* without a credential the v0.2 plugin has scored and logged a run of two
\* captured tool calls, one of them a violation
C28_Witness ==
    /\ NoCredential
    /\ out.scored
    /\ \E i \in 1..Len(out.logs) :
          out.logs[i].msg = "agent=main session=s1 tools=2 violations=1 duration=1000ms"

\* and the agent_end-only plugin a run whose history names a tool
C28_WitnessAE ==
    /\ variant = "ae" /\ config.apiKey = ""
    /\ out.scored /\ out.score.dimensions.scopeAdherence = 0

\* a captured value as the claim wants it stored: an empty object for what is
\* no object or cannot be serialized, a marker with the size for what
\* serializes to more than the limit, the value itself otherwise
Budgeted(data) ==
    IF data.kind # "object" THEN Obj(2)
    ELSE IF data.size > 10000 THEN [kind |-> "truncated", size |-> data.size]
    ELSE data

\* what after_tool_call captures as the output of a call: the tool's result,
\* or the object holding the error when the call failed
CapturedOutput(e) ==
    IF e.error \in {Undef, ""} THEN e.result ELSE Obj(e.errorLen + 12)

\* the action a tool-call step has appended to the record of key k
LastAction(m, k) == MapGet(m, k).actions[Len(MapGet(m, k).actions)]

\* C29 (as stated): every tool-call event appends its action, whose input and
\* output are the captured values cut to the budget: a truncation marker
\* carrying the size when the serialized form exceeds 10,000, the value
\* unchanged when it does not, an empty object when it is no object or cannot
\* be serialized.
C29_Original ==
    [][\A c \in Keys_v02, e \in ToolEvents :
          after_tool_call_v02(c, e, FALSE)
          => LET k == Nullish(c, "unknown")
             IN  /\ MapHas(activeRuns', k)
                 /\ Len(MapGet(activeRuns', k).actions)
                       = Len(RecordOf(activeRuns, k).actions) + 1
                 /\ LastAction(activeRuns', k).input = Budgeted(e.params)
                 /\ LastAction(activeRuns', k).output = Budgeted(CapturedOutput(e))]_vars

\* what holds: the input always, and the output of the calls that did not fail
C29_ExceptFailedCalls ==
    [][\A c \in Keys_v02, e \in ToolEvents :
          after_tool_call_v02(c, e, FALSE)
          => LET k == Nullish(c, "unknown")
             IN  /\ MapHas(activeRuns', k)
                 /\ Len(MapGet(activeRuns', k).actions)
                       = Len(RecordOf(activeRuns, k).actions) + 1
                 /\ LastAction(activeRuns', k).input = Budgeted(e.params)
                 /\ LastAction(activeRuns', k).output
                       = IF e.error \in {Undef, ""} THEN Budgeted(e.result)
                         ELSE CapturedOutput(e)]_vars

\* C30 (as stated): with two registrations handling events of the same
\* session key, a step in which the handlers of one registration run leaves
\* the registry of the other as it was: it creates, changes and deletes no
\* record there.
C30_Original ==
    [][\A i \in {1, 2} :
          (Handling = i /\ config' = config) => Registry(3 - i)' = Registry(3 - i)]_vars

\* what the shared Map leads to: a record of session s1 holding two calls of
\* shell, the first judged a violation under the allow-list of one
\* registration and the second allowed under the empty list of the other
C30_MixedRecord ==
    \E r \in activeRuns :
        /\ r.sessionKey = "s1"
        /\ r.toolCalls = <<"shell", "shell">>
        /\ r.scopeViolations = <<"shell">>
        /\ ~r.actions[1].scopeMatch /\ r.actions[2].scopeMatch

\* sequence a is the beginning of sequence b
IsPrefix(a, b) == Len(a) <= Len(b) /\ SubSeq(b, 1, Len(a)) = a

\* C31: the action log of a run is append-only.  Across every step, a record
\* that stays registered (in the v0.1 engine: the record of the same run,
\* created at the same time; in the v0.2 plugin: the record of the same
\* session key) has its former log as a prefix of its new log: handlers add
\* actions at the end and change, reorder or drop none.
C31_AppendOnly ==
    [][/\ \A r \in runs : \A n \in runs' :
             (n.sessionKey = r.sessionKey /\ n.runId = r.runId
                 /\ n.startedAt = r.startedAt)
             => IsPrefix(r.actions, n.actions)
       /\ \A r \in activeRuns : \A n \in activeRuns' :
             n.sessionKey = r.sessionKey => IsPrefix(r.actions, n.actions)]_vars

\* a v0.1 record whose log holds a tool call and, after it, a model call
C31_Witness ==
    \E r \in runs :
        /\ Len(r.actions) = 2
        /\ r.actions[1].type = "tool_call" /\ r.actions[2].type = "llm_call"

\* a v0.2 record whose log holds a captured call and, after it, one added by the scan
C31_WitnessScan ==
    \E r \in activeRuns :
        /\ Len(r.actions) = 2
        /\ r.actions[1].durationMs = 100 /\ r.actions[2].durationMs = 0
        /\ r.actions[2].input = EmptyObj

\* the error count of a record; the records of the v0.1 engine have none
ErrorsOf(r) == IF variant = "v02" THEN r.errors ELSE 0

\* the totals of a record; the records of the v0.2 plugin keep neither
TokensOf(r) == IF variant = "v01" THEN r.totalTokens ELSE 0
CostOf(r) == IF variant = "v01" THEN r.totalCost ELSE 0

\* no counter of record n is below that of record r
NotBelow(r, n) ==
    /\ TokensOf(n) >= TokensOf(r)
    /\ CostOf(n) >= CostOf(r)
    /\ ErrorsOf(n) >= ErrorsOf(r)
    /\ Len(n.toolCalls) >= Len(r.toolCalls)
    /\ Len(n.scopeViolations) >= Len(r.scopeViolations)
    /\ Len(n.latencies) >= Len(r.latencies)

\* C32: while a record stays registered its aggregate counters never
\* decrease.  Across every step, for each record that is still the same
\* record afterwards, total tokens, total cost, the error count and the
\* lengths of the tool-call, violation and latency lists are each at least
\* what they were.
C32_CountersMonotone ==
    [][/\ \A r \in runs : \A n \in runs' :
             (n.sessionKey = r.sessionKey /\ n.runId = r.runId
                 /\ n.startedAt = r.startedAt)
             => NotBelow(r, n)
       /\ \A r \in activeRuns : \A n \in activeRuns' :
             n.sessionKey = r.sessionKey => NotBelow(r, n)]_vars

\* a v0.2 record after a failed call off the list and a second call: every
\* counter has grown
C32_Witness ==
    \E r \in activeRuns :
        /\ r.errors = 1 /\ Len(r.toolCalls) = 2 /\ Len(r.latencies) = 2
        /\ Len(r.scopeViolations) >= 1

\* a v0.1 record after two model calls with usage
C32_WitnessV01 ==
    \E r \in runs : r.totalTokens = 30 /\ r.totalCost = 60 /\ Len(r.latencies) = 2

\* string t occurs in string s
Contains(s, t) ==
    \E i \in 1..(Len(s) - Len(t) + 1) : SubSeq(s, i, i + Len(t) - 1) = t

\* C33: every flag of a computed score, whatever its dimension and whichever
\* scoring function emitted it, carries a non-empty suggested action, and
\* the message of every scope flag contains the name of one of the tools the
\* scored record lists as violations.
C33_FlagsExplained ==
    (scoring.fn # "none" /\ scoring.done) =>
        \A i \in 1..Len(scoring.score.flags) :
            LET flag == scoring.score.flags[i]
            IN  /\ flag.action # ""
                /\ Len(flag.action) > 0
                /\ flag.dimension = "scope_adherence" =>
                      \E j \in 1..Len(scoring.run.scopeViolations) :
                          /\ scoring.run.scopeViolations[j] # ""
                          /\ Contains(flag.message, scoring.run.scopeViolations[j])

\* the run of the test has been scored: a violation, a cost over the
\* threshold and a slow call, one flag for each
C33_Witness ==
    /\ scoring.fn = "test" /\ scoring.done
    /\ FlagsOf(scoring.score, "scope_adherence") # <<>>
    /\ FlagsOf(scoring.score, "cost_efficiency") # <<>>
    /\ FlagsOf(scoring.score, "latency_efficiency") # <<>>

\* a failed and overlong run has been scored by the v0.2 plugin
C33_WitnessV02 ==
    /\ scoring.fn = "v02" /\ scoring.done
    /\ FlagsOf(scoring.score, "reliability") # <<>>
    /\ FlagsOf(scoring.score, "scope_adherence") # <<>>
    /\ Len(FlagsOf(scoring.score, "latency_efficiency")) = 2

(***************************************************************************)
(* The two handlers of the v0.2 plugin, one statement at a time.  The host *)
(* runs callbacks on one thread and starts the next one when the running   *)
(* one has returned or is suspended at an await.  `scoring` holds the call *)
(* in progress: the statement it is at, its arguments and its place in the *)
(* tools of the message history.                                           *)
(***************************************************************************)
Task(pc, sessionKey, event, i) ==
    [fn |-> "task", pc |-> pc, sessionKey |-> sessionKey, event |-> event, i |-> i]

NoTask == Task("idle", "", Undef, 0)

\* a handler that would await between its first and its second push
SuspendsAfterFirstPush(pc) == pc \in {"latencies", "scan.scopeViolations"}

\* whether the handler gives up the thread before this statement: neither
\* body holds an await; the only one is in the .then of the fetch
Suspends(pc) == FALSE

Schedulable == scoring.pc = "idle" \/ Suspends(scoring.pc)

At(pc) == [scoring EXCEPT !.pc = pc]

TaskKeeps == <<variant, now, config, host, hostRun, ctx, runs, lastActiveSessionKey>>

\* the host calls the after_tool_call callback
Start_after_tool_call(ctxSessionKey, event) ==
    /\ variant = "v02" /\ Schedulable
    /\ TotalActions(activeRuns) + Pending(inflight) < MaxActions
    /\ scoring' = Task("get", Nullish(ctxSessionKey, "unknown"), event, 0)
    /\ UNCHANGED <<activeRuns, inflight, out>>
    /\ UNCHANGED TaskKeeps

\* the next statement of the running after_tool_call
Step_after_tool_call ==
    LET sessionKey == scoring.sessionKey
        event == scoring.event
        toolName == Nullish(event.toolName, "unknown")
        run == MapGet(activeRuns, sessionKey)
        duration == NullishNum(event.durationMs, 0)
        isError == event.error \notin {Undef, ""}
        scopeMatch == ScopeMatch(config.allowedTools, toolName)
        Set(r, pc) == /\ activeRuns' = MapSet(activeRuns, sessionKey, r)
                      /\ scoring' = At(pc)
                      /\ UNCHANGED out
    IN  /\ variant = "v02"
        /\ CASE scoring.pc = "get" ->
                  IF MapHas(activeRuns, sessionKey)
                  THEN scoring' = At("toolCalls") /\ UNCHANGED <<activeRuns, out>>
                  ELSE Set([sessionKey |-> sessionKey, startedAt |-> now,
                            actions |-> <<>>, toolCalls |-> <<>>,
                            scopeViolations |-> <<>>, latencies |-> <<>>,
                            errors |-> 0], "toolCalls")
             [] scoring.pc = "toolCalls" ->
                  Set([run EXCEPT !.toolCalls = Append(@, toolName)], "latencies")
             [] scoring.pc = "latencies" ->
                  Set([run EXCEPT !.latencies = Append(@, duration)], "errors")
             [] scoring.pc = "errors" ->
                  Set([run EXCEPT !.errors = IF isError THEN @ + 1 ELSE @],
                      "scopeViolations")
             [] scoring.pc = "scopeViolations" ->
                  Set([run EXCEPT !.scopeViolations =
                            IF scopeMatch THEN @ ELSE Append(@, toolName)], "actions")
             [] scoring.pc = "actions" ->
                  Set([run EXCEPT !.actions = Append(@,
                         [type |-> "tool_call", tool |-> toolName,
                          status |-> IF isError THEN "error" ELSE "success",
                          durationMs |-> duration, scopeMatch |-> scopeMatch,
                          timestamp |-> now,
                          input |-> sanitize(event.params),
                          output |-> IF isError THEN ErrorOutput(event.errorLen)
                                     ELSE sanitize(event.result),
                          sessionId |-> sessionKey])], "log")
             [] scoring.pc = "log" ->
                  /\ out' = Out("returned",
                                (IF ~scopeMatch /\ config.logLocally
                                 THEN <<Log("warn", "SCOPE VIOLATION: tool \"" \o toolName
                                                     \o "\" not in allowed list")>>
                                 ELSE <<>>)
                                \o (IF config.verbose /\ config.logLocally
                                    THEN <<Log("info", toolName)>> ELSE <<>>),
                                FALSE, NoScore)
                  /\ scoring' = NoTask
                  /\ UNCHANGED activeRuns
             [] OTHER -> FALSE
        /\ UNCHANGED inflight
        /\ UNCHANGED TaskKeeps

\* the host calls the agent_end callback
Start_agent_end(ctxSessionKey, event) ==
    LET sessionKey == Nullish(ctxSessionKey, "unknown")
        merged == IF MapHas(activeRuns, sessionKey)
                  THEN MapSet(activeRuns, sessionKey,
                              MergeMessageTools(MapGet(activeRuns, sessionKey),
                                                extractToolsFromMessages(event.messages),
                                                config.allowedTools, now))
                  ELSE activeRuns
    IN  /\ variant = "v02" /\ Schedulable
        /\ TotalActions(merged) + Pending(inflight) <= MaxActions
        /\ scoring' = Task("scan", sessionKey, event, 1)
        /\ UNCHANGED <<activeRuns, inflight, out>>
        /\ UNCHANGED TaskKeeps

\* the next statement of the running agent_end
Step_agent_end ==
    LET sessionKey == scoring.sessionKey
        event == scoring.event
        agentName == "main"
        hasRun == MapHas(activeRuns, sessionKey)
        messageTools == extractToolsFromMessages(event.messages)
        run == IF hasRun THEN MapGet(activeRuns, sessionKey)
               ELSE [sessionKey |-> sessionKey, actions |-> <<>>]
        t == messageTools[scoring.i]
        scopeMatch == ScopeMatch(config.allowedTools, t)
        Set(r, pc) == /\ activeRuns' = MapSet(activeRuns, sessionKey, r)
                      /\ scoring' = At(pc)
                      /\ UNCHANGED <<inflight, out>>
        score == score_v02(hasRun, run, messageTools, event.success, event.error,
                           event.durationMs, config)
        logs == IF config.logLocally
                THEN <<Log("info", ScoreLine(score)),
                       Log("info", "agent=" \o agentName \o " session=" \o sessionKey
                              \o " tools="
                              \o ToString(IF hasRun THEN Len(run.toolCalls)
                                          ELSE Len(messageTools))
                              \o " violations="
                              \o ToString(IF hasRun THEN Len(run.scopeViolations) ELSE 0)
                              \o " duration=" \o ToString(event.durationMs) \o "ms")>>
                        \o FlagLines(score.flags)
                ELSE <<>>
        dispatches == HasCredential(config.agentToken) /\ hasRun /\ Len(run.actions) > 0
    IN  /\ variant = "v02"
        /\ CASE scoring.pc = "scan" ->
                  /\ scoring' =
                        IF ~hasRun \/ scoring.i > Len(messageTools) THEN At("score")
                        ELSE IF Includes(run.toolCalls, t)
                        THEN [scoring EXCEPT !.i = @ + 1]
                        ELSE At("scan.toolCalls")
                  /\ UNCHANGED <<activeRuns, inflight, out>>
             [] scoring.pc = "scan.toolCalls" ->
                  Set([run EXCEPT !.toolCalls = Append(@, t)], "scan.scopeViolations")
             [] scoring.pc = "scan.scopeViolations" ->
                  Set([run EXCEPT !.scopeViolations =
                            IF scopeMatch THEN @ ELSE Append(@, t)], "scan.actions")
             [] scoring.pc = "scan.actions" ->
                  /\ activeRuns' = MapSet(activeRuns, sessionKey,
                        [run EXCEPT !.actions = Append(@,
                            [type |-> "tool_call", tool |-> t, status |-> "success",
                             durationMs |-> 0, scopeMatch |-> scopeMatch,
                             timestamp |-> now, input |-> EmptyObj,
                             output |-> EmptyObj, sessionId |-> sessionKey])])
                  /\ scoring' = [scoring EXCEPT !.pc = "scan", !.i = @ + 1]
                  /\ UNCHANGED <<inflight, out>>
             [] scoring.pc = "score" ->
                  /\ out' = Out("returned", logs, config.logLocally, score)
                  /\ inflight' = IF dispatches
                                 THEN Append(inflight, Payload_v02(agentName, run))
                                 ELSE inflight
                  /\ Len(inflight') <= MaxInflight
                  /\ scoring' = At("delete")
                  /\ UNCHANGED activeRuns
             [] scoring.pc = "delete" ->
                  /\ activeRuns' = evictStale_v02(MapDelete(activeRuns, sessionKey), now)
                  /\ scoring' = NoTask
                  /\ UNCHANGED <<inflight, out>>
             [] OTHER -> FALSE
        /\ UNCHANGED TaskKeeps

InitTasks ==
    /\ variant = "v02"
    /\ now = T0
    /\ config \in Configs_v02
    /\ host = NoHost
    /\ hostRun = [s \in Sessions |-> "r1"]
    /\ ctx = [s \in Sessions |-> NewContext(s, "")]
    /\ runs = {}
    /\ lastActiveSessionKey = ""
    /\ activeRuns = {}
    /\ inflight = <<>>
    /\ out = Out("returned", <<>>, FALSE, NoScore)
    /\ scoring = NoTask

NextTasks ==
    \/ \E k \in {"s1", Undef}, e \in ToolEvents : Start_after_tool_call(k, e)
    \/ Step_after_tool_call
    \/ \E k \in {"s1", Undef}, e \in EndEvents : Start_agent_end(k, e)
    \/ Step_agent_end
    \/ \E i \in 1..MaxInflight, o \in Outcomes : Schedulable /\ Settle_v02(i, o)
    \/ TickV02

SpecTasks == InitTasks /\ [][NextTasks]_vars

\* the lists and counters of a record agree on the events it has taken in:
\* one action per tool call, under the same name; the violations are the
\* calls found off the list and the error count the calls that failed; the
\* latency samples are the durations of the calls captured as they happened
Whole(r) ==
    /\ r.toolCalls = [i \in 1..Len(r.actions) |-> r.actions[i].tool]
    /\ r.scopeViolations =
          LET off == SelectSeq(r.actions, LAMBDA a : ~a.scopeMatch)
          IN  [i \in 1..Len(off) |-> off[i].tool]
    /\ r.errors = Len(SelectSeq(r.actions, LAMBDA a : a.status = "error"))
    /\ Len(r.latencies) <= Len(r.actions)
    /\ SelectSeq(r.latencies, LAMBDA l : l # 0) =
          LET timed == SelectSeq(r.actions, LAMBDA a : a.durationMs # 0)
          IN  [i \in 1..Len(timed) |-> timed[i].durationMs]

\* C34: an event is handled to completion before the next one is handled.
\* Whenever the host can start a handler (the running one has returned, or
\* is suspended), every registered record is whole: no record is seen with
\* its lists and counters updated for only a part of an event.
C34_RunToCompletion == Schedulable => \A r \in activeRuns : Whole(r)

\* a handler is between its first and its last write to a record, which is
\* not whole, and no other handler can start
C34_Witness ==
    /\ scoring.pc = "scopeViolations" /\ ~Schedulable
    /\ \E r \in activeRuns :
          /\ r.sessionKey = scoring.sessionKey /\ ~Whole(r)
          /\ Len(r.toolCalls) = 2 /\ Len(r.actions) = 1

\* the scan of a run end is between two writes
C34_WitnessScan ==
    /\ scoring.pc = "scan.actions" /\ ~Schedulable
    /\ \E r \in activeRuns : r.sessionKey = scoring.sessionKey /\ ~Whole(r)

\* two calls of one session have been handled, one after the other
C34_WitnessWhole ==
    /\ scoring.pc = "idle"
    /\ \E r \in activeRuns : Len(r.actions) = 2 /\ r.errors = 1 /\ Whole(r)

\* the records of every key but k are the same before and after the step
OthersKept(before, after, k) ==
    {r \in before : r.sessionKey # k} = {r \in after : r.sessionKey # k}

\* the record of key k has taken in one event: it is the record of before
\* with one action more, or a record made by this step holding one action
TookOne(before, after, k) ==
    /\ MapHas(after, k)
    /\ LET n == MapGet(after, k)
       IN  \/ /\ MapHas(before, k)
              /\ MapGet(before, k).startedAt = n.startedAt
              /\ Len(n.actions) = Len(MapGet(before, k).actions) + 1
              /\ IsPrefix(MapGet(before, k).actions, n.actions)
           \/ /\ n.startedAt = now
              /\ Len(n.actions) = 1

\* C35: sessions are independent.  An accumulation event (the end of a tool
\* call, the end of a model call) whose context carries session key A
\* leaves the record of every other key as it was and adds exactly one
\* action to the record of A, whatever events of other sessions came
\* between.
C35_SessionsIndependent ==
    [][/\ (variant = "v01" /\ host.exposesKey /\ runs' # runs) =>
             \A s \in Sessions :
                ((\E u \in Usages : llm_output(s, u))
                    \/ (\E t \in ToolInputs : after_tool_call_v01(s, t)))
                => OthersKept(runs, runs', s) /\ TookOne(runs, runs', s)
       /\ (variant = "v02" /\ activeRuns' # activeRuns) =>
             \A s \in Sessions :
                (\E e \in ToolEvents : after_tool_call_v02(s, e, FALSE))
                => OthersKept(activeRuns, activeRuns', s)
                      /\ TookOne(activeRuns, activeRuns', s)]_vars

\* two sessions of the v0.1 engine have a record each, with one action each
C35_Witness ==
    /\ variant = "v01" /\ host.exposesKey
    /\ \E a \in runs, b \in runs :
          /\ a.sessionKey = "s1" /\ b.sessionKey = "s2"
          /\ Len(a.actions) = 1 /\ Len(b.actions) = 1

\* the same for the v0.2 plugin
C35_WitnessV02 ==
    \E a \in activeRuns, b \in activeRuns :
        /\ a.sessionKey = "s1" /\ b.sessionKey = "s2"
        /\ Len(a.actions) = 1 /\ Len(b.actions) = 1

\* the session a dispatched report is about
ReportKey(payload) == payload.actions[1].session_id

\* the reports this step has dispatched
Dispatched(before, after) ==
    {after[i] : i \in (Len(before) + 1)..Len(after)}

\* C36: a captured action goes out in at most one report.  Every step that
\* dispatches a report takes its actions from the record registered for the
\* session (its log, followed by what the scan adds) and leaves no record
\* for that session behind, so that a repeated run end finds nothing to
\* send again.
C36_ReportedOnce ==
    [][Len(inflight') > Len(inflight) =>
          \A p \in Dispatched(inflight, inflight') :
             /\ MapHas(activeRuns, ReportKey(p))
             /\ IsPrefix(Payload_v02(p.agent_id, MapGet(activeRuns, ReportKey(p))).actions,
                         p.actions)
             /\ ~MapHas(activeRuns', ReportKey(p))]_vars

\* a report with two actions is on its way and its session has no record
C36_Witness ==
    /\ Len(inflight) = 1 /\ Len(inflight[1].actions) = 2
    /\ ~MapHas(activeRuns, ReportKey(inflight[1]))

\* the run end of session s1 has been handled again while its report was on
\* its way: it found no record and no tools, and dispatched nothing
C36_WitnessRepeated ==
    /\ Len(inflight) = 1 /\ ReportKey(inflight[1]) = "s1"
    /\ ~MapHas(activeRuns, "s1")
    /\ \E i \in 1..Len(out.logs) :
          out.logs[i].msg = "agent=main session=s1 tools=0 violations=0 duration=1000ms"

\* C37: the content of a report is fixed when it is dispatched.  Across
\* every step, whatever the handler (a tool call of the same session, a run
\* end, the clock), the requests in flight are the same as before, or the
\* same followed by a new one, or the same without the one that settled: no
\* step changes a request that is on its way.
C37_PayloadFixed ==
    [][\/ IsPrefix(inflight, inflight')
       \/ \E i \in 1..Len(inflight) : inflight' = Without(inflight, i)]_vars

\* a report of session s1 is on its way and the session has captured a call
\* since: the report holds the one call it was dispatched with
C37_Witness ==
    /\ Len(inflight) = 1 /\ ReportKey(inflight[1]) = "s1"
    /\ Len(inflight[1].actions) = 1 /\ inflight[1].actions[1].tool = "read"
    /\ \E r \in activeRuns :
          r.sessionKey = "s1" /\ Len(r.actions) = 1 /\ r.actions[1].tool = "shell"

\* C38 (as stated): in the v0.2 plugin a run end removes the session's
\* record even when the handler fails part-way (on the message history, in
\* the logger, in the dispatch): after every run-end step, failed or not,
\* the session has no record.
C38_Original ==
    [][\A e \in EndEvents, f \in Failures :
          agent_end_v02("s1", e, f) => ~MapHas(activeRuns', "s1")]_vars

\* Whether an action was captured as the call happened.  The scan's actions
\* have an empty input and a name found in a message history; the captured
\* ones have the event's params (none of which sanitizes to {} unless the
\* event had no tool name, which is booked as "unknown").
CapturedLive(a) == a.input # EmptyObj \/ a.tool = "unknown"

Shape(r) ==
    /\ Len(r.actions) = Len(r.toolCalls)
    /\ Len(r.latencies) = Len(SelectSeq(r.actions, CapturedLive))
    /\ Len(r.latencies) <= Len(r.toolCalls)
    /\ r.errors <= Len(r.latencies)
    /\ \A i \in 1..Len(r.scopeViolations) : Includes(r.toolCalls, r.scopeViolations[i])
    /\ Len(r.scopeViolations) <= Len(r.toolCalls)

\* C39: between any two events every record registered by the v0.2 plugin
\* has as many actions as tool calls, one latency sample for each call
\* captured as it happened and none for those the scan added, no more
\* errors than latency samples, and no violation that is not among its tool
\* calls.
C39_RecordShape == variant = "v02" => \A r \in activeRuns : Shape(r)

\* a record left by a failed run end, holding a failed call captured live
\* and a tool the scan added
C39_Witness ==
    \E r \in activeRuns :
        /\ Len(r.toolCalls) = 2 /\ Len(r.latencies) = 1 /\ r.errors = 1
        /\ r.actions[2].input = EmptyObj /\ r.actions[2].tool = "read"

\* C40 (as stated): a flagged deduction is never rounded away.  Whenever a
\* computed score carries a scope_adherence flag, a cost_efficiency flag or
\* a per-sample latency_efficiency flag, the score of that dimension is
\* strictly below 100, however many tool calls, violations and latency
\* samples the run has.
C40_Original ==
    (scoring.fn # "none" /\ scoring.done) =>
        /\ FlagsOf(scoring.score, "scope_adherence") # <<>>
              => scoring.score.dimensions.scopeAdherence < 100
        /\ FlagsOf(scoring.score, "cost_efficiency") # <<>>
              => scoring.score.dimensions.costEfficiency < 100
        /\ SampleFlags # <<>>
              => scoring.score.dimensions.latencyEfficiency < 100

====
